---------------------------- MODULE Spec2Model ----------------------------
(***************************************************************************)
(* Dual-core workload / telemetry firmware (nrf54l15_dual_core_test).      *)
(*                                                                         *)
(* The compute core (cpuflpr) runs a workload task, a telemetry task and   *)
(* an IPC receive callback over the shared variables current_workload,     *)
(* total_work_cycles and work_iterations; the reporting core (cpuapp)      *)
(* forwards one-byte workload selectors as SetWorkload envelopes and       *)
(* receives Stats and AudioData envelopes.  Envelopes travel as byte       *)
(* sequences, laid out as the two packed structs lay them out.             *)
(***************************************************************************)
EXTENDS Integers, Sequences, FiniteSets, TLC

(***************************************************************************)
(* Program constants.                                                      *)
(***************************************************************************)
RISCV_FREQ_MHZ == 128

IPC_MSG_STATS == 1

IPC_MSG_SET_WORKLOAD == 2

IPC_MSG_HEARTBEAT == 3

IPC_MSG_AUDIO_DATA == 4

WORKLOAD_IDLE == 0

WORKLOAD_MATRIX_MULT == 1

WORKLOAD_AUDIO_PIPELINE == 6

WORKLOAD_AUDIO_PIPELINE_AEC == 7

WORKLOAD_NECKLACE_FULL == 13

\* #define TEST_DATA_SIZE 495 of cpuapp: the bytes of one notification.
TEST_DATA_SIZE == 495

NUM_MICS == 3

FRAME_SIZE == 128

AEC_FILTER_TAPS == 256

(***************************************************************************)
(* Fixed-width integer arithmetic of the C code.  The model checker's      *)
(* integers are 32-bit, so 16-bit and 32-bit signed values are integers    *)
(* (with explicit wraparound) and the unsigned 32-bit and 64-bit objects   *)
(* of the program are their little-endian memory images: tuples of bytes.  *)
(***************************************************************************)
INT32_MAX == 2147483647

Abs(x) == IF x < 0 THEN -x ELSE x

\* Conversion to int16_t (two's complement wrap, as the builds do).
I16(x) == LET m == x % 65536 IN IF m >= 32768 THEN m - 65536 ELSE m

\* a + b in an int32_t, wrapping on overflow.
I32Add(a, b) ==
  IF a > 0 /\ b > INT32_MAX - a
    THEN (a - INT32_MAX - 1) + (b - INT32_MAX - 1)
    ELSE IF a < 0 /\ b < (-INT32_MAX - 1) - a
           THEN (a + INT32_MAX + 1) + (b + INT32_MAX + 1)
           ELSE a + b

\* C integer division truncates toward zero.
CDiv(a, b) == IF (a >= 0) = (b > 0) THEN Abs(a) \div Abs(b) ELSE -(Abs(a) \div Abs(b))

RECURSIVE SumRange(_, _, _)
\* f[lo] + ... + f[hi] (0 for an empty range), summed by halves.
SumRange(f, lo, hi) ==
  IF lo > hi THEN 0
  ELSE IF lo = hi THEN f[lo]
  ELSE LET mid == (lo + hi) \div 2
       IN SumRange(f, lo, mid) + SumRange(f, mid + 1, hi)

\* f[0] + ... + f[n], 0 for n < 0.
SumTo(f, n) == SumRange(f, 0, n)

RECURSIVE SumRange32(_, _, _)
\* The same sum accumulated in an int32_t (wrapping addition is associative).
SumRange32(f, lo, hi) ==
  IF lo > hi THEN 0
  ELSE IF lo = hi THEN f[lo]
  ELSE LET mid == (lo + hi) \div 2
       IN I32Add(SumRange32(f, lo, mid), SumRange32(f, mid + 1, hi))

RECURSIVE ToBytes(_, _)
\* The w-byte little-endian two's complement image of integer n.
ToBytes(n, w) == IF w = 0 THEN <<>> ELSE <<n % 256>> \o ToBytes(n \div 256, w - 1)

RECURSIVE FromBytes(_)
\* The unsigned value of a byte image (for images below 2^31).
FromBytes(b) == IF b = <<>> THEN 0 ELSE Head(b) + 256 * FromBytes(Tail(b))

RECURSIVE AddCarry(_, _, _)
AddCarry(a, b, c) ==
  IF a = <<>> THEN <<>>
  ELSE LET t == Head(a) + Head(b) + c
       IN <<t % 256>> \o AddCarry(Tail(a), Tail(b), t \div 256)

\* a + b modulo 2^(8 * Len(a)).
AddB(a, b) == AddCarry(a, b, 0)

RECURSIVE SubBorrow(_, _, _)
SubBorrow(a, b, c) ==
  IF a = <<>> THEN <<>>
  ELSE LET t == Head(a) - Head(b) - c
       IN <<t % 256>> \o SubBorrow(Tail(a), Tail(b), IF t < 0 THEN 1 ELSE 0)

\* a - b modulo 2^(8 * Len(a)).
SubB(a, b) == SubBorrow(a, b, 0)

RECURSIVE MulCarry(_, _, _)
MulCarry(a, m, c) ==
  IF a = <<>> THEN <<>>
  ELSE LET t == Head(a) * m + c
       IN <<t % 256>> \o MulCarry(Tail(a), m, t \div 256)

\* a * m modulo 2^(8 * Len(a)), for a small multiplier m.
MulB(a, m) == MulCarry(a, m, 0)

RECURSIVE DivRem(_, _)
\* Long division of image a by a small divisor d, most significant byte
\* first: the quotient image and the remainder.
DivRem(a, d) ==
  IF a = <<>> THEN [q |-> <<>>, r |-> 0]
  ELSE LET hi == DivRem(Tail(a), d)
           t == hi.r * 256 + Head(a)
       IN [q |-> <<t \div d>> \o hi.q, r |-> t % d]

\* a / d (unsigned), for a divisor d below 2^23.
DivB(a, d) == DivRem(a, d).q

\* The low n bits of an image, n <= 16, as an integer.
LowBits(b, n) == (b[1] + 256 * b[2]) % (2 ^ n)

(***************************************************************************)
(* Audio pipeline with acoustic echo cancellation: one frame.              *)
(* Arrays are functions on 0..N-1, as the C code indexes them.             *)
(***************************************************************************)
Samples == 0 .. (FRAME_SIZE - 1)

Taps == 0 .. (AEC_FILTER_TAPS - 1)

Mics == 0 .. (NUM_MICS - 1)

ZeroTaps == [k \in Taps |-> 0]

\* Stage 1: simulated ADC reads, seeded by work_result (a uint32_t image;
\* the mask keeps the low 12 bits of the unsigned sum).
MicData(wr) ==
  [mic \in Mics |-> [i \in Samples |-> (i * (mic + 1) * 37 + LowBits(wr, 12)) % 4096]]

\* Stage 2: DC removal and 3-tap FIR.  The loop starts at i = 2, so elements
\* 0 and 1 of every row keep whatever the stack held: `stale`.
FilteredData(mic_data, stale) ==
  [mic \in Mics |->
     LET dc_offset == I16(CDiv(SumTo(mic_data[mic], FRAME_SIZE - 1), FRAME_SIZE))
     IN [i \in Samples |->
           IF i < 2
             THEN stale[mic][i]
             ELSE I16(CDiv(mic_data[mic][i - 2] + 2 * mic_data[mic][i - 1]
                           + mic_data[mic][i], 4) - dc_offset)]]

\* Stage 3: delay-and-sum beamforming.
Beamform(filtered_data) ==
  [i \in Samples |->
     LET delay == IF i >= 2 THEN i - 2 ELSE 0
     IN I16(CDiv(filtered_data[0][i] * 2 + filtered_data[1][delay]
                 + filtered_data[2][delay], 4))]

\* Stage 4a: noise gate (noise_floor = 100).
NoiseGate(beamformed_output) ==
  [i \in Samples |->
     IF Abs(beamformed_output[i]) > 100 THEN beamformed_output[i] ELSE 0]

\* Sum of squares of a frame, accumulated in an int32_t.
Energy32(frame) == SumRange32([i \in Samples |-> frame[i] * frame[i]], 0, FRAME_SIZE - 1)

\* The gain limited from above only.
ClampGainBad(g) == IF g > 512 THEN 512 ELSE g

\* The two range checks applied to the int16_t gain.
ClampGain(g) == IF g > 512 THEN 512 ELSE IF g < 64 THEN 64 ELSE g

\* Stage 4b: AGC gain from rms = signal_energy / FRAME_SIZE.
AgcGain(rms) == IF rms > 0 THEN ClampGain(I16(CDiv(2000 * 256, rms + 1))) ELSE 1

\* The same stage of workload_audio_pipeline.
AgcGainPlain(rms) == IF rms > 0 THEN ClampGain(I16(CDiv(2000 * 256, rms + 1))) ELSE 1

\* The same stage of workload_necklace_full, whose gain starts at 128.
AgcGainNecklace(rms) == IF rms > 0 THEN ClampGain(I16(CDiv(2000 * 256, rms + 1))) ELSE 128

ApplyGain(gated, gain) == [i \in Samples |-> I16(CDiv(gated[i] * gain, 256))]

\* Stage 5: frame energy, zero crossings and the VAD decision.
FrameEnergy(processed_output) == CDiv(Energy32(processed_output), FRAME_SIZE)

ZeroCrossings(processed_output) ==
  Cardinality({i \in 1 .. (FRAME_SIZE - 1) :
                 \/ processed_output[i] >= 0 /\ processed_output[i - 1] < 0
                 \/ processed_output[i] < 0 /\ processed_output[i - 1] >= 0})

VoiceDetected(frame_energy, zero_crossings) ==
  frame_energy > 1000 /\ zero_crossings > 10 /\ zero_crossings < 80

\* A VAD decision that takes the boundary values for voice.
VoiceDetectedLoose(frame_energy, zero_crossings) ==
  frame_energy >= 1000 /\ zero_crossings >= 10 /\ zero_crossings <= 80

\* The VAD decision of workload_audio_pipeline.
VoiceDetectedPlain(frame_energy, zero_crossings) ==
  frame_energy > 1000 /\ zero_crossings > 10 /\ zero_crossings < 80

\* A reference signal written into every entry of the buffer.
FarEndWhole(far_end_buffer, wr) == [k \in Taps |-> (k * 29 + LowBits(wr, 11)) % 2048]

\* Stage 6: simulated far-end reference; only the first FRAME_SIZE entries
\* of the 256-entry buffer are written.
FarEnd(far_end_buffer, wr) ==
  [k \in Taps |-> IF k < FRAME_SIZE THEN (k * 29 + LowBits(wr, 11)) % 2048
                                    ELSE far_end_buffer[k]]

\* The coefficient limited from below only.
ClampCoefBad(c) == IF c < -8192 THEN -8192 ELSE c

\* Coefficient range limit applied after every update.
ClampCoef(c) == IF c > 8192 THEN 8192 ELSE IF c < -8192 THEN -8192 ELSE c

\* Echo estimate for sample n: convolution over taps k <= n.
EchoEst(filt, far, n) ==
  SumTo([k \in 0 .. n |-> CDiv(filt[k] * far[n - k], 256)], n)

\* Normalisation term of the NLMS step for sample n.
NlmsPower(far, n) ==
  CDiv(SumTo([k \in 0 .. n |-> CDiv(far[n - k] * far[n - k], 256)], n),
       AEC_FILTER_TAPS) + 1

\* One NLMS coefficient pass (n even): w[k] += (update_factor * x[n-k]) / 256.
NlmsUpdate(filt, far, n, err_n) ==
  LET update_factor == CDiv(16 * err_n, NlmsPower(far, n))
  IN [k \in Taps |->
        IF k <= n
          THEN ClampCoef(I16(filt[k] + CDiv(update_factor * far[n - k], 256)))
          ELSE filt[k]]

\* The sums coefficient + update of one pass in exact arithmetic, for the
\* taps k <= n the pass touches.
NlmsExact(filt, far, n, err_n) ==
  LET update_factor == CDiv(16 * err_n, NlmsPower(far, n))
  IN [k \in 0 .. n |-> filt[k] + CDiv(update_factor * far[n - k], 256)]

\* Every coefficient is within the limits of the clamp.
CoefInRange(filt) == \A k \in Taps : filt[k] >= -8192 /\ filt[k] <= 8192

\* One iteration of the per-sample loop, on the loop state
\* [n, filt, err, ok, hit, sat]: echo estimate, error sample, and on even n
\* the update.  ok records that the coefficients were in range after every
\* update so far, hit that some update left a coefficient at a limit, sat
\* that every exact sum beyond a limit was stored as that limit.
AecStep(st, processed_output, far) ==
  LET n == st.n
      echo_estimate == I16(EchoEst(st.filt, far, n))
      e == I16(processed_output[n] - echo_estimate)
      next == [filt |-> IF n % 2 = 0 THEN NlmsUpdate(st.filt, far, n, e) ELSE st.filt,
               err |-> [st.err EXCEPT ![n] = e]]
  IN [n |-> n + 1,
      filt |-> next.filt,
      err |-> next.err,
      ok |-> st.ok /\ CoefInRange(next.filt),
      hit |-> st.hit \/ (n % 2 = 0 /\ \E k \in Taps : next.filt[k] = -8192
                                                      \/ next.filt[k] = 8192),
      sat |-> st.sat /\ (n % 2 = 0 =>
                \E exact \in {NlmsExact(st.filt, far, n, e)}, stored \in {next.filt} :
                   \A k \in 0 .. n : /\ exact[k] > 8192 => stored[k] = 8192
                                     /\ exact[k] < -8192 => stored[k] = -8192)]

RECURSIVE AecLoop(_, _, _, _)
\* The loop for (n = st.n; n < last; n++), run by halves; the state after
\* the first half is the state the second half starts from.
AecLoop(st, last, processed_output, far) ==
  IF st.n >= last THEN st
  ELSE IF st.n + 1 = last THEN AecStep(st, processed_output, far)
  ELSE LET mid == (st.n + last) \div 2
           half == AecLoop(st, mid, processed_output, far)
       IN IF half.n = mid THEN AecLoop(half, last, processed_output, far)
                          ELSE half

DoubleTalkLoose(near_end_energy, far_end_energy) ==
  near_end_energy >= 500 /\ far_end_energy >= 500

DoubleTalk(near_end_energy, far_end_energy) ==
  near_end_energy > 500 /\ far_end_energy > 500

\* An output stage that passes the error signal on in every frame.
FinalOutputResidual(double_talk, processed_output, error_signal) ==
  [i \in Samples |-> error_signal[i]]

\* Residual echo suppression.
FinalOutput(double_talk, processed_output, error_signal) ==
  [i \in Samples |->
     IF double_talk
       THEN processed_output[i]
       ELSE IF Abs(error_signal[i]) < 50
              THEN I16(CDiv(error_signal[i], 2))
              ELSE error_signal[i]]

\* The element of a one-element set.  Stage results are bound this way so
\* that each array is computed once, as the code computes it, before the
\* next stage reads it.
Only(S) == CHOOSE v \in S : TRUE

\* Stages 1 to 4: the frame up to processed_output.
AecFrontEnd(wr, stale) ==
  Only({LET rms == CDiv(Energy32(gated), FRAME_SIZE)
            gain == AgcGain(rms)
        IN [rms |-> rms, gain |-> gain, processed_output |-> ApplyGain(gated, gain)] :
          gated \in {NoiseGate(Beamform(filtered_data)) :
                       filtered_data \in {FilteredData(MicData(wr), stale)}}})

\* Stages 5 to 8 on the front end's output, the far-end reference and the
\* loop's final state.
AecBackEnd(front, far, loop) ==
  LET processed_output == front.processed_output
      frame_energy == FrameEnergy(processed_output)
      zero_crossings == ZeroCrossings(processed_output)
      voice_detected == VoiceDetected(frame_energy, zero_crossings)
      far_end_energy == CDiv(Energy32(far), FRAME_SIZE)
      double_talk == DoubleTalk(frame_energy, far_end_energy)
  IN Only({[aec_filter |-> loop.filt,
            coef_ok |-> loop.ok,
            coef_hit |-> loop.hit,
            coef_sat |-> loop.sat,
            far_end_buffer |-> far,
            voice_detected |-> voice_detected,
            double_talk |-> double_talk,
            frame_energy |-> frame_energy,
            zero_crossings |-> zero_crossings,
            gain |-> front.gain,
            rms |-> front.rms,
            final_output |-> final_output,
            work_result |-> IF voice_detected THEN ToBytes(final_output[0], 4)
                                               ELSE ToBytes(0, 4)] :
             final_output \in {FinalOutput(double_talk, processed_output, loop.err)}})

\* workload_audio_pipeline_aec: the frame's results, from the seed work_result,
\* the persistent filter state and the stale stack contents read by stage 3.
AecFrame(wr, filt, far_end_buffer, stale) ==
  Only({Only({AecBackEnd(front, far, loop) :
                loop \in {AecLoop([n |-> 0, filt |-> filt, err |-> [i \in Samples |-> 0],
                                   ok |-> CoefInRange(filt), hit |-> FALSE,
                                   sat |-> TRUE],
                                  FRAME_SIZE, front.processed_output, far)}}) :
          front \in {AecFrontEnd(wr, stale)}, far \in {FarEnd(far_end_buffer, wr)}})

\* Stages 1 to 4 of workload_audio_pipeline (the same statements as in the
\* echo-cancelling variant).
PlainFrontEnd(wr, stale) ==
  Only({LET rms == CDiv(Energy32(gated), FRAME_SIZE)
            gain == AgcGainPlain(rms)
        IN [rms |-> rms, gain |-> gain, processed_output |-> ApplyGain(gated, gain)] :
          gated \in {NoiseGate(Beamform(filtered_data)) :
                       filtered_data \in {FilteredData(MicData(wr), stale)}}})

\* workload_audio_pipeline: the frame's results, from the seed work_result
\* and the stale stack contents read by stage 3.
PlainFrame(wr, stale) ==
  Only({LET frame_energy == FrameEnergy(front.processed_output)
            zero_crossings == ZeroCrossings(front.processed_output)
            voice_detected == VoiceDetectedPlain(frame_energy, zero_crossings)
        IN [voice_detected |-> voice_detected,
            frame_energy |-> frame_energy,
            zero_crossings |-> zero_crossings,
            gain |-> front.gain,
            rms |-> front.rms,
            processed_output |-> front.processed_output,
            work_result |-> IF voice_detected
                              THEN ToBytes(front.processed_output[0], 4)
                              ELSE ToBytes(0, 4)] :
          front \in {PlainFrontEnd(wr, stale)}})

(***************************************************************************)
(* Matrix multiplication kernel: the value left in work_result.           *)
(***************************************************************************)
\* c[i][j], accumulated in an int16_t.
MatC(i, j) == I16(SumTo([k \in 0 .. 3 |-> ((i + k) % 256) * ((k * j) % 256)], 3))

(***************************************************************************)
(* Envelope layout.  Both cores declare the same two packed structs; a     *)
(* layout is the declaration's field list, offsets follow from packing.    *)
(***************************************************************************)
\* struct ipc_message of the compute core
IpcMessageFlpr ==
  << [name |-> "type", size |-> 1], [name |-> "workload", size |-> 1],
     [name |-> "reserved", size |-> 2], [name |-> "data", size |-> 20] >>

\* The same declaration with a one-byte reserved field.
IpcMessageArmBad ==
  << [name |-> "type", size |-> 1], [name |-> "workload", size |-> 1],
     [name |-> "reserved", size |-> 1], [name |-> "data", size |-> 20] >>

\* struct ipc_message of the reporting core
IpcMessageArm ==
  << [name |-> "type", size |-> 1], [name |-> "workload", size |-> 1],
     [name |-> "reserved", size |-> 2], [name |-> "data", size |-> 20] >>

\* struct stats_data of the compute core
StatsDataFlpr ==
  << [name |-> "total_cycles", size |-> 8], [name |-> "iterations", size |-> 4],
     [name |-> "mips", size |-> 4], [name |-> "workload_type", size |-> 4],
     [name |-> "cpu_pct", size |-> 4] >>

\* struct stats_data of the reporting core
StatsDataArm ==
  << [name |-> "total_cycles", size |-> 8], [name |-> "iterations", size |-> 4],
     [name |-> "mips", size |-> 4], [name |-> "workload_type", size |-> 4],
     [name |-> "cpu_pct", size |-> 4] >>

RECURSIVE SizeOfFirst(_, _)
\* Total size of the first n fields of a packed struct.
SizeOfFirst(layout, n) ==
  IF n = 0 THEN 0 ELSE layout[n].size + SizeOfFirst(layout, n - 1)

SizeOf(layout) == SizeOfFirst(layout, Len(layout))

FieldIndex(layout, name) == CHOOSE i \in 1 .. Len(layout) : layout[i].name = name

\* offsetof(struct, field) for a packed struct.
OffsetOf(layout, name) == SizeOfFirst(layout, FieldIndex(layout, name) - 1)

FieldSize(layout, name) == layout[FieldIndex(layout, name)].size

\* A buffer whose bytes were never cleared.
ZeroBytesSkipped(n) == [i \in 1 .. n |-> 255]

\* memset(&obj, 0, n)
ZeroBytes(n) == [i \in 1 .. n |-> 0]

\* Store `bytes` at byte offset off of memory image mem (offsets from 0).
Store(mem, off, bytes) ==
  [i \in 1 .. Len(mem) |->
     IF i - 1 >= off /\ i - 1 < off + Len(bytes) THEN bytes[i - off] ELSE mem[i]]

\* Load size bytes at offset off of a buffer; a byte past the end of the
\* buffer is whatever the neighbouring memory holds: `stale`.
Load(buf, off, size, stale) ==
  [i \in 1 .. size |-> IF off + i <= Len(buf) THEN buf[off + i] ELSE stale[i]]

\* The offsets of an access [off, off + size) that fall outside n bytes.
Outside(off, size, n) == {o \in off .. (off + size - 1) : o >= n}

(***************************************************************************)
(* Bounds of the exploration.                                              *)
(***************************************************************************)
MaxInvocations == 2

MaxReports == 2

MaxWrites == 2

MaxInFlight == 1

MaxElapsedUs == 1

MaxInject == 1

MaxEnvOps == 1

MaxAecFrames == 1

MaxAecRuns == 2

MaxRadioOps == 8

\* Executions of the body of one for loop.
MaxLoopTrips == 256

\* Notifications accepted by the radio stack and not yet confirmed.
MaxUnacked == 12

\* Workload selector bytes written on the reporting core: Idle, MatrixMult
\* and a byte that is no WorkloadKind ordinal.
SelectorBytes == {WORKLOAD_IDLE, WORKLOAD_MATRIX_MULT, 200}

\* Selector bytes of the echo-canceller runs.
AecSelectorBytes == {WORKLOAD_MATRIX_MULT, WORKLOAD_AUDIO_PIPELINE_AEC}

\* Contents of memory next to a buffer, as a 32-bit word image.
StaleWords == {<<0, 0, 0, 0>>, <<255, 255, 255, 255>>}

\* Contents of the stack slots filtered_data[mic][0..1] at function entry.
StaleStacks == {[mic \in Mics |-> [i \in 0 .. 1 |-> v]] : v \in {0, 1000}}

Zero4 == ZeroBytes(4)

Zero8 == ZeroBytes(8)

\* The echo-canceller frames of the first two calls after construction (seed
\* 0 and cleared statics, then what the first call left), for every stale
\* stack content, as tuples <<seed, coefficients, reference, stale, results>>.
FirstFrames ==
  {<<Zero4, ZeroTaps, ZeroTaps, stale, AecFrame(Zero4, ZeroTaps, ZeroTaps, stale)>> :
     stale \in StaleStacks}

SecondFrames(first) ==
  {<<e[5].work_result, e[5].aec_filter, e[5].far_end_buffer, stale,
     AecFrame(e[5].work_result, e[5].aec_filter, e[5].far_end_buffer, stale)>> :
     e \in first, stale \in StaleStacks}

(***************************************************************************)
(* State.                                                                  *)
(***************************************************************************)
VARIABLES
  \* compute core (cpuflpr)
  current_workload,    \* enum workload_type, stored from a uint8_t
  total_work_cycles,   \* uint64_t image
  work_iterations,     \* uint32_t image
  work_result,         \* volatile uint32_t image
  aec_filter,          \* static int16_t[256] of workload_audio_pipeline_aec
  far_end_buffer,      \* static int16_t[256] of workload_audio_pipeline_aec
  wl_pc,               \* workload_thread position
  wl_cycles,           \* workload_thread: cycles
  wl_reg,              \* workload_thread: value loaded for a += / ++
  st_pc,               \* stats_thread position
  prev_cycles,         \* stats_thread locals
  prev_iterations,
  cycle_delta,
  iter_delta,
  st_oob,              \* envelope offsets stats_thread wrote outside msg
  flpr_log,            \* last "Received IPC msg type=%d len=%d" of cpuflpr
  \* IPC channel: envelopes in flight, each [buf, origin]
  to_flpr,
  to_arm,
  \* reporting core (cpuapp)
  ipc_ready,
  riscv_mips,
  riscv_workload,
  riscv_cpu_pct,
  audio_frames_received,
  audio_voice_detected,
  wr_pc,               \* on_riscv_workload_write position
  wr_i,                \* its loop counter
  wr_workload,         \* its local workload
  arm_oob,             \* envelope offsets cpuapp's ep_recv read outside the buffer
  arm_log,             \* last "Received IPC msg type=%d len=%d" of cpuapp
  gatt,                \* the fast GATT peripheral (a program of its own): connection,
                       \* flags, tx_sem, the notifications in flight, stream_thread
  radio,               \* the radio side of cpuapp: connection, byte counters, target
                       \* rate, and the locals of its stats_thread and stream_thread
  \* exploration budgets
  inv_left, rep_left, wr_left, inj_left,
  \* history
  h_switched,          \* a SetWorkload naming a new kind arrived since the last report began
  h_rep_switched,      \* ... before the report now being computed
  h_sends,             \* Stats send attempts of the report now being computed or last computed
  h_scn,               \* "init", then "mm" after a first SetWorkload(MatrixMult), else "off"
  h_est,               \* cycle estimates returned since the last SetWorkload
  h_stats_origin,      \* what stats_thread computed for the Stats envelope last received
  h_coef,              \* ok: the coefficients were in range after every update so
                       \* far; hit: some update left a coefficient at a limit
  h_frame,             \* the last execute_workload call: whether it ran an audio
                       \* pipeline, its VAD decision, the AudioData sends it
                       \* attempted; and of the echo-canceller frames: the
                       \* coefficients the last one started from (filt_in) and
                       \* left (filt_out), and those the one before it left
  \* one envelope written by one core and read by the other
  cd_pc,               \* "off", "new", "sent", "read"
  cd_from,             \* the writing core
  cd_msg,              \* kind, workload and five payload words to write
  cd_buf,              \* the bytes in transit
  cd_out,              \* kind, workload and payload words as read
  \* one computation of the firmware applied to given operands
  u_pc,                \* "off", "new", "done"
  u_in,                \* the operation and its operands
  u_out,               \* its results
  u_frames             \* echo-canceller frames computed in advance, as tuples
                       \* <<seed, coefficients, reference, stale, results>>

flpr_vars == << current_workload, total_work_cycles, work_iterations, work_result,
                aec_filter, far_end_buffer, wl_pc, wl_cycles, wl_reg, st_pc,
                prev_cycles, prev_iterations, cycle_delta, iter_delta, st_oob,
                flpr_log >>

arm_vars == << ipc_ready, riscv_mips, riscv_workload, riscv_cpu_pct,
               audio_frames_received, audio_voice_detected, wr_pc, wr_i,
               wr_workload, arm_oob, arm_log, radio, gatt >>

codec_vars == << cd_pc, cd_from, cd_msg, cd_buf, cd_out >>

unit_vars == << u_pc, u_in, u_out, u_frames >>

aux_vars == << inv_left, rep_left, wr_left, inj_left, h_switched, h_rep_switched, h_sends,
               h_scn, h_est, h_stats_origin, h_coef, h_frame, codec_vars,
               unit_vars >>

vars == << flpr_vars, arm_vars, to_flpr, to_arm, aux_vars >>

\* #define TX_BUF_COUNT 10 of the fast GATT peripheral.
TX_BUF_COUNT == 10

\* The fast GATT peripheral after main: no connection, tx_sem initialised to
\* 0 with limit TX_BUF_COUNT, stream_thread at the head of its loop.  unacked
\* is the number of notifications bt_gatt_notify_cb accepted whose sent
\* callback has not run; aborted says that k_sem_reset ended the wait of
\* stream_thread in k_sem_take.
GattBoot ==
  [conn |-> FALSE, notify_enabled |-> FALSE, dle_ready |-> FALSE, tx_sem |-> 0,
   pc |-> "loop", aborted |-> FALSE, unacked |-> 0]

\* The radio side of cpuapp after start: no connection, the statics and
\* the locals of stats_thread at their initializers.  div0 tells that
\* stream_thread divided by zero, fault that the division trapped; h_sent
\* and h_recv are the bytes sent and received since the last snapshot,
\* reports the number of radio reports computed, left the budget.
RadioBoot ==
  [conn |-> FALSE, notify |-> FALSE, bytes_sent |-> Zero4, bytes_received |-> Zero4,
   target_tx_kbps |-> Zero4, prev_bytes_sent |-> Zero4, prev_bytes_received |-> Zero4,
   sent_delta |-> Zero4, recv_delta |-> Zero4, arm_cpu_pct |-> Zero4,
   delay_ms |-> Zero4, div0 |-> FALSE, fault |-> FALSE, h_sent |-> 0, h_recv |-> 0,
   reports |-> 0, left |-> MaxRadioOps]

\* The state after both cores have started, before any budget is given.
InitProgram ==
  /\ current_workload = WORKLOAD_IDLE
  /\ total_work_cycles = Zero8
  /\ work_iterations = Zero4
  /\ work_result = Zero4
  /\ aec_filter = ZeroTaps
  /\ far_end_buffer = ZeroTaps
  /\ wl_pc = "check"
  /\ wl_cycles = Zero8
  /\ wl_reg = Zero8
  /\ st_pc = "sleep"
  /\ prev_cycles = Zero8
  /\ prev_iterations = Zero4
  /\ cycle_delta = Zero8
  /\ iter_delta = Zero4
  /\ st_oob = {}
  /\ flpr_log = <<>>
  /\ to_flpr = <<>>
  /\ to_arm = <<>>
  /\ ipc_ready = FALSE
  /\ riscv_mips = Zero4
  /\ riscv_workload = Zero4
  /\ riscv_cpu_pct = Zero4
  /\ audio_frames_received = Zero4
  /\ audio_voice_detected = Zero4
  /\ wr_pc = "idle"
  /\ wr_i = 0
  /\ wr_workload = 0
  /\ arm_oob = {}
  /\ arm_log = <<>>
  /\ h_switched = FALSE
  /\ h_rep_switched = FALSE
  /\ h_sends = 0
  /\ radio = RadioBoot
  /\ gatt = GattBoot
  /\ h_scn = "init"
  /\ h_est = <<>>
  /\ h_stats_origin = <<>>
  /\ h_coef = [ok |-> TRUE, hit |-> FALSE]
  /\ h_frame = [audio |-> FALSE, voice |-> FALSE, sends |-> 0,
                handler |-> WORKLOAD_IDLE, double_talk |-> FALSE,
                filt_in |-> ZeroTaps, filt_prev |-> ZeroTaps, filt_out |-> ZeroTaps]

\* No computation on given operands under way.
UnitOff ==
  /\ u_pc = "off"
  /\ u_in = <<>>
  /\ u_out = <<>>
  /\ u_frames = {}

\* No computation on given operands under way; the frames of the first two
\* echo-canceller calls are computed once, here.
UnitOffFrames ==
  /\ u_pc = "off"
  /\ u_in = <<>>
  /\ u_out = <<>>
  /\ \E first \in {FirstFrames} : u_frames = first \cup SecondFrames(first)

\* No envelope under way in the codec.
CodecOff ==
  /\ cd_pc = "off"
  /\ cd_from = "cpuapp"
  /\ cd_msg = <<>>
  /\ cd_buf = <<>>
  /\ cd_out = <<>>

Init ==
  /\ InitProgram
  /\ inv_left = MaxInvocations
  /\ rep_left = MaxReports
  /\ wr_left = MaxWrites
  /\ inj_left = 0
  /\ CodecOff
  /\ UnitOff

(***************************************************************************)
(* Transport: ipc_service_send copies len bytes of the message into the    *)
(* channel, or fails when the endpoint is not bound or no buffer is free.  *)
(***************************************************************************)
Envelope(mem, len, origin) == [buf |-> SubSeq(mem, 1, len), origin |-> origin]

SendOk(chan) == ipc_ready /\ Len(chan) < MaxInFlight

IpcServiceSend(chan, mem, len, origin) ==
  IF SendOk(chan) THEN Append(chan, Envelope(mem, len, origin)) ELSE chan

(***************************************************************************)
(* Compute core: IPC receive callback.                                     *)
(***************************************************************************)
\* A test that takes every kind from SetWorkload up for SetWorkload.
IsSetWorkloadBad(type) == type >= IPC_MSG_SET_WORKLOAD

\* msg->type == IPC_MSG_SET_WORKLOAD
IsSetWorkload(type) == type = IPC_MSG_SET_WORKLOAD

\* ep_recv of cpuflpr.  The length is logged and nothing else is done with
\* it.  type and workload are the first two bytes of the buffer (every
\* envelope the model delivers has at least two).
flpr_ep_recv ==
  /\ to_flpr # <<>>
  /\ LET buf == Head(to_flpr).buf
         type == Load(buf, OffsetOf(IpcMessageFlpr, "type"), 1, <<0>>)[1]
         workload == Load(buf, OffsetOf(IpcMessageFlpr, "workload"), 1, <<0>>)[1]
     IN /\ flpr_log' = <<type, Len(buf)>>
        /\ IF IsSetWorkload(type)
             THEN /\ current_workload' = workload
                  /\ total_work_cycles' = Zero8
                  /\ work_iterations' = Zero4
                  /\ h_switched' = (h_switched \/ workload # current_workload)
                  /\ h_scn' = IF h_scn = "init" /\ workload = WORKLOAD_MATRIX_MULT
                                THEN "mm" ELSE "off"
                  /\ h_est' = <<>>
             ELSE UNCHANGED << current_workload, total_work_cycles, work_iterations,
                               h_switched, h_scn, h_est >>
  /\ to_flpr' = Tail(to_flpr)
  /\ UNCHANGED << work_result, aec_filter, far_end_buffer, wl_pc, wl_cycles, wl_reg,
                  st_pc, prev_cycles, prev_iterations, cycle_delta, iter_delta,
                  st_oob, to_arm, arm_vars, inv_left, rep_left, wr_left, inj_left,
                  h_rep_switched, h_sends, h_stats_origin, h_coef, h_frame, codec_vars,
                  unit_vars >>

(***************************************************************************)
(* Compute core: workload task.                                            *)
(***************************************************************************)
\* A packing with the two halves exchanged.
PackSamplesSwapped(lo, hi) == ToBytes(hi % 65536, 2) \o ToBytes(lo % 65536, 2)

\* (lo & 0xFFFF) | ((hi & 0xFFFF) << 16), stored in a uint32_t: the image of
\* the word.  The shift reaches bit 31 of an int; the compiler (GCC) gives
\* the two's complement result.
PackSamples(lo, hi) == ToBytes(lo % 65536, 2) \o ToBytes(hi % 65536, 2)

\* The AudioData message of workload_audio_pipeline (memset, then the
\* fields; data[4] is not assigned).
AudioMsgPlain(f) ==
  LET base == OffsetOf(IpcMessageFlpr, "data")
      m0 == ZeroBytes(SizeOf(IpcMessageFlpr))
      m1 == Store(m0, OffsetOf(IpcMessageFlpr, "type"), <<IPC_MSG_AUDIO_DATA>>)
      m2 == Store(m1, OffsetOf(IpcMessageFlpr, "workload"), <<WORKLOAD_AUDIO_PIPELINE>>)
      m3 == Store(m2, base, PackSamples(f.processed_output[0], f.processed_output[1]))
      m4 == Store(m3, base + 4, PackSamples(f.processed_output[2], f.processed_output[3]))
      m5 == Store(m4, base + 8, ToBytes(f.frame_energy, 4))
  IN Store(m5, base + 12, ToBytes(f.zero_crossings, 4))

\* The AudioData message of the AEC pipeline (memset, then the fields).
AudioMsgAec(f) ==
  LET base == OffsetOf(IpcMessageFlpr, "data")
      m0 == ZeroBytes(SizeOf(IpcMessageFlpr))
      m1 == Store(m0, OffsetOf(IpcMessageFlpr, "type"), <<IPC_MSG_AUDIO_DATA>>)
      m2 == Store(m1, OffsetOf(IpcMessageFlpr, "workload"),
                  <<WORKLOAD_AUDIO_PIPELINE_AEC>>)
      m3 == Store(m2, base, PackSamples(f.final_output[0], f.final_output[1]))
      m4 == Store(m3, base + 4, PackSamples(f.final_output[2], f.final_output[3]))
      m5 == Store(m4, base + 8, ToBytes(f.frame_energy, 4))
      m6 == Store(m5, base + 12, ToBytes(f.zero_crossings, 4))
  IN Store(m6, base + 16, ToBytes(IF f.double_talk THEN 1 ELSE 0, 4))

\* workload_audio_pipeline_aec(): AecFrame, looked up in u_frames where it
\* is already computed there.
AecFrameOf(wr, filt, far, stale) ==
  LET known == {e \in u_frames :
                  e[1] = wr /\ e[2] = filt /\ e[3] = far /\ e[4] = stale}
  IN IF known # {} THEN Only(known)[5] ELSE AecFrame(wr, filt, far, stale)

\* A pipeline that sends its message whatever the VAD decided.
AudioOutAlways(voice_detected, msg) == msg

\* if (voice_detected) { ... ipc_service_send(&ep, &msg, sizeof(msg)); ... }:
\* the message the frame sends, <<>> for none.
AudioOut(voice_detected, msg) == IF voice_detected THEN msg ELSE <<>>

\* An array of automatic storage, cleared at every entry of the function.
AecFilterCleared == ZeroTaps

\* static int16_t aec_filter[AEC_FILTER_TAPS]: at function entry the array
\* holds what the previous call left in it (zeros before the first call).
AecFilterAtEntry == aec_filter

\* A kernel that clears the echo canceller's arrays.
StaticsCleared == [aec_filter |-> ZeroTaps, far_end_buffer |-> ZeroTaps]

\* aec_filter and far_end_buffer are statics declared inside
\* workload_audio_pipeline_aec: no other function can name them, and a call
\* of another kernel leaves them as they are.
StaticsKept == [aec_filter |-> aec_filter, far_end_buffer |-> far_end_buffer]

\* execute_workload: what one call leaves behind.  `timed` tells whether a
\* kernel ran (and returned elapsed * RISCV_FREQ_MHZ) or the default branch
\* slept and returned 0.  The model selects the kinds Idle, MatrixMult,
\* AudioPipeline, AudioPipelineAEC and bytes that are no kind; the other
\* kernels are not dispatched (none of them calls ipc_service_send).
\* `pipeline` and `voice` tell whether an audio pipeline ran and what its VAD
\* decided, `filt_in` is the coefficient array an echo-canceller frame
\* started from and `double_talk` what its detector decided; `handler` is
\* the case label of the branch taken (WORKLOAD_IDLE for `case
\* WORKLOAD_IDLE: default:`).
ExecuteWorkload(kind, stale) ==
  CASE kind = WORKLOAD_MATRIX_MULT ->
         [work_result |-> ToBytes(MatC(0, 0), 4), aec_filter |-> StaticsKept.aec_filter,
          far_end_buffer |-> StaticsKept.far_end_buffer, coef_ok |-> TRUE, coef_hit |-> FALSE,
          audio |-> <<>>, timed |-> TRUE, pipeline |-> FALSE, voice |-> FALSE,
          filt_in |-> <<>>, handler |-> WORKLOAD_MATRIX_MULT]
    [] kind = WORKLOAD_AUDIO_PIPELINE ->
         Only({[work_result |-> f.work_result, aec_filter |-> StaticsKept.aec_filter,
                far_end_buffer |-> StaticsKept.far_end_buffer, coef_ok |-> TRUE,
                coef_hit |-> FALSE,
                audio |-> AudioOut(f.voice_detected, AudioMsgPlain(f)),
                timed |-> TRUE, pipeline |-> TRUE, voice |-> f.voice_detected,
                filt_in |-> <<>>, handler |-> WORKLOAD_AUDIO_PIPELINE] :
                 f \in {PlainFrame(work_result, stale)}})
    [] kind = WORKLOAD_AUDIO_PIPELINE_AEC ->
         Only({Only({[work_result |-> f.work_result, aec_filter |-> f.aec_filter,
                      far_end_buffer |-> f.far_end_buffer, coef_ok |-> f.coef_ok,
                      coef_hit |-> f.coef_hit,
                      audio |-> AudioOut(f.voice_detected, AudioMsgAec(f)),
                      timed |-> TRUE, pipeline |-> TRUE, voice |-> f.voice_detected,
                      filt_in |-> filt, handler |-> WORKLOAD_AUDIO_PIPELINE_AEC,
                      double_talk |-> f.double_talk] :
                       f \in {AecFrameOf(work_result, filt, far_end_buffer, stale)}}) :
                 filt \in {AecFilterAtEntry}})
    [] OTHER ->
         [work_result |-> work_result, aec_filter |-> StaticsKept.aec_filter,
          far_end_buffer |-> StaticsKept.far_end_buffer, coef_ok |-> TRUE, coef_hit |-> FALSE,
          audio |-> <<>>, timed |-> FALSE, pipeline |-> FALSE, voice |-> FALSE,
          filt_in |-> <<>>, handler |-> WORKLOAD_IDLE]

\* A dispatcher that selects the MatrixMult kernel whatever is active.
DispatchKindFixed == WORKLOAD_MATRIX_MULT

\* switch (current_workload) of execute_workload: the value read at the
\* switch, in the call.
DispatchKind == current_workload

\* if (current_workload != WORKLOAD_IDLE) ... else k_sleep
wl_check ==
  /\ wl_pc = "check"
  /\ wl_pc' = IF current_workload # WORKLOAD_IDLE THEN "exec" ELSE "check"
  /\ UNCHANGED << current_workload, total_work_cycles, work_iterations, work_result,
                  aec_filter, far_end_buffer, wl_cycles, wl_reg, st_pc, prev_cycles,
                  prev_iterations, cycle_delta, iter_delta, st_oob, flpr_log,
                  to_flpr, to_arm, arm_vars, aux_vars >>

\* uint64_t cycles = execute_workload();
wl_exec ==
  /\ wl_pc = "exec"
  /\ inv_left > 0
  /\ \E stale \in StaleStacks :
       \E r \in {ExecuteWorkload(DispatchKind, stale)} :
          /\ work_result' = r.work_result
          /\ aec_filter' = r.aec_filter
          /\ far_end_buffer' = r.far_end_buffer
          /\ h_coef' = [ok |-> h_coef.ok /\ r.coef_ok, hit |-> h_coef.hit \/ r.coef_hit]
          /\ h_frame' = IF r.filt_in = <<>>
                          THEN [h_frame EXCEPT !.audio = r.pipeline, !.voice = r.voice,
                                               !.sends = IF r.audio # <<>> THEN 1 ELSE 0,
                                               !.handler = r.handler]
                          ELSE [audio |-> r.pipeline, voice |-> r.voice,
                                sends |-> IF r.audio # <<>> THEN 1 ELSE 0,
                                handler |-> r.handler,
                                double_talk |-> r.double_talk,
                                filt_in |-> r.filt_in,
                                filt_prev |-> h_frame.filt_out,
                                filt_out |-> r.aec_filter]
          /\ to_arm' = IF r.audio # <<>>
                         THEN IpcServiceSend(to_arm, r.audio, SizeOf(IpcMessageFlpr), <<>>)
                         ELSE to_arm
          /\ \E us \in 1 .. MaxElapsedUs :
               LET cycles == IF r.timed THEN us * RISCV_FREQ_MHZ ELSE 0
               IN /\ wl_cycles' = ToBytes(cycles, 8)
                  /\ h_est' = Append(h_est, cycles)
  /\ wl_pc' = "addc_ld"
  /\ inv_left' = inv_left - 1
  /\ UNCHANGED << current_workload, total_work_cycles, work_iterations, wl_reg, st_pc,
                  prev_cycles, prev_iterations, cycle_delta, iter_delta, st_oob,
                  flpr_log, to_flpr, arm_vars, rep_left, wr_left, inj_left,
                  h_switched, h_rep_switched, h_sends, h_scn, h_stats_origin, codec_vars,
                  unit_vars >>

\* total_work_cycles += cycles;  (load)
wl_addc_ld ==
  /\ wl_pc = "addc_ld"
  /\ wl_reg' = total_work_cycles
  /\ wl_pc' = "addc_st"
  /\ UNCHANGED << current_workload, total_work_cycles, work_iterations, work_result,
                  aec_filter, far_end_buffer, wl_cycles, st_pc, prev_cycles,
                  prev_iterations, cycle_delta, iter_delta, st_oob, flpr_log,
                  to_flpr, to_arm, arm_vars, aux_vars >>

\* total_work_cycles += cycles;  (store)
wl_addc_st ==
  /\ wl_pc = "addc_st"
  /\ total_work_cycles' = AddB(wl_reg, wl_cycles)
  /\ wl_pc' = "inc_ld"
  /\ UNCHANGED << current_workload, work_iterations, work_result, aec_filter,
                  far_end_buffer, wl_cycles, wl_reg, st_pc, prev_cycles,
                  prev_iterations, cycle_delta, iter_delta, st_oob, flpr_log,
                  to_flpr, to_arm, arm_vars, aux_vars >>

\* work_iterations++;  (load)
wl_inc_ld ==
  /\ wl_pc = "inc_ld"
  /\ wl_reg' = work_iterations
  /\ wl_pc' = "inc_st"
  /\ UNCHANGED << current_workload, total_work_cycles, work_iterations, work_result,
                  aec_filter, far_end_buffer, wl_cycles, st_pc, prev_cycles,
                  prev_iterations, cycle_delta, iter_delta, st_oob, flpr_log,
                  to_flpr, to_arm, arm_vars, aux_vars >>

\* work_iterations++;  (store)
wl_inc_st ==
  /\ wl_pc = "inc_st"
  /\ work_iterations' = AddB(wl_reg, ToBytes(1, 4))
  /\ wl_pc' = "check"
  /\ UNCHANGED << current_workload, total_work_cycles, work_result, aec_filter,
                  far_end_buffer, wl_cycles, wl_reg, st_pc, prev_cycles,
                  prev_iterations, cycle_delta, iter_delta, st_oob, flpr_log,
                  to_flpr, to_arm, arm_vars, aux_vars >>

(***************************************************************************)
(* Compute core: telemetry task.                                           *)
(***************************************************************************)
\* The comparison turned round: u < n.
LessThan(u, n) == (\A i \in 4 .. Len(u) : u[i] = 0) /\ FromBytes(u) < n

\* u > n for a 32-bit image u and a small number n.
GreaterThan(u, n) == (\E i \in 4 .. Len(u) : u[i] # 0) \/ FromBytes(u) > n

\* uint32_t mips = instructions / 1000000;
Mips(cd) == SubSeq(DivB(DivB(MulB(cd, 10), 15), 1000000), 1, 4)

\* uint32_t cpu_pct = (mips * 100) / RISCV_FREQ_MHZ; capped at 100.
CpuPct(mips) ==
  LET pct == DivB(MulB(mips, 100), RISCV_FREQ_MHZ)
  IN IF GreaterThan(pct, 100) THEN ToBytes(100, 4) ELSE pct

\* The stack around `msg` after the Stats message is built: sizeof(msg)
\* bytes of msg followed by the bytes the stats_data overlay reaches, as far
\* as it reaches.  memset clears msg only.
StatsMem(workload, cd, id, mips, cpu_pct) ==
  LET base == OffsetOf(IpcMessageFlpr, "data")
      size == SizeOf(IpcMessageFlpr)
      reach == base + SizeOf(StatsDataFlpr)
      m0 == ZeroBytes(IF reach > size THEN reach ELSE size)
      m1 == Store(m0, OffsetOf(IpcMessageFlpr, "type"), <<IPC_MSG_STATS>>)
      m2 == Store(m1, OffsetOf(IpcMessageFlpr, "workload"), <<workload>>)
      m3 == Store(m2, base + OffsetOf(StatsDataFlpr, "total_cycles"), cd)
      m4 == Store(m3, base + OffsetOf(StatsDataFlpr, "iterations"), id)
      m5 == Store(m4, base + OffsetOf(StatsDataFlpr, "mips"), mips)
      m6 == Store(m5, base + OffsetOf(StatsDataFlpr, "workload_type"),
                  ToBytes(workload, 4))
  IN Store(m6, base + OffsetOf(StatsDataFlpr, "cpu_pct"), cpu_pct)

\* The envelope offsets the stats_data stores touch outside msg.
StatsStoresOutside ==
  UNION {Outside(OffsetOf(IpcMessageFlpr, "data") + OffsetOf(StatsDataFlpr, StatsDataFlpr[i].name),
                 StatsDataFlpr[i].size, SizeOf(IpcMessageFlpr)) :
           i \in 1 .. Len(StatsDataFlpr)}

st_rest == << current_workload, total_work_cycles, work_iterations, work_result,
              aec_filter, far_end_buffer, wl_pc, wl_cycles, wl_reg, flpr_log,
              to_flpr, arm_vars, inv_left, wr_left, inj_left, h_scn, h_est,
              h_stats_origin, h_coef, h_frame, codec_vars, unit_vars >>

\* k_sleep; uint64_t cycle_delta = total_work_cycles - prev_cycles;
st_delta_cycles ==
  /\ st_pc = "sleep"
  /\ rep_left > 0
  /\ cycle_delta' = SubB(total_work_cycles, prev_cycles)
  /\ st_pc' = "l1219"
  /\ rep_left' = rep_left - 1
  /\ h_rep_switched' = h_switched
  /\ h_sends' = 0
  /\ h_switched' = FALSE
  /\ UNCHANGED << st_rest, prev_cycles, prev_iterations, iter_delta, st_oob, to_arm >>

\* uint32_t iter_delta = work_iterations - prev_iterations;
st_delta_iter ==
  /\ st_pc = "l1219"
  /\ iter_delta' = SubB(work_iterations, prev_iterations)
  /\ st_pc' = "l1221"
  /\ UNCHANGED << st_rest, prev_cycles, prev_iterations, cycle_delta, st_oob, to_arm,
                  rep_left, h_switched, h_rep_switched, h_sends >>

\* prev_cycles = total_work_cycles;
st_snap_cycles ==
  /\ st_pc = "l1221"
  /\ prev_cycles' = total_work_cycles
  /\ st_pc' = "l1222"
  /\ UNCHANGED << st_rest, prev_iterations, cycle_delta, iter_delta, st_oob, to_arm,
                  rep_left, h_switched, h_rep_switched, h_sends >>

\* prev_iterations = work_iterations;
st_snap_iter ==
  /\ st_pc = "l1222"
  /\ prev_iterations' = work_iterations
  /\ st_pc' = "l1228"
  /\ UNCHANGED << st_rest, prev_cycles, cycle_delta, iter_delta, st_oob, to_arm,
                  rep_left, h_switched, h_rep_switched, h_sends >>

\* A telemetry task that sends the same report again when the send failed.
AfterSendRetry(sent) == IF sent THEN "sleep" ELSE "l1228"

\* if (ret < 0) { printk(...); }: whatever ipc_service_send returned, the
\* task goes on to its printk calls and to the k_sleep of the next round.
AfterSend(sent) == "sleep"

\* MIPS and CPU%, the Stats message, ipc_service_send(&ep, &msg, sizeof(msg)).
st_send ==
  /\ st_pc = "l1228"
  /\ LET mips == Mips(cycle_delta)
         cpu_pct == CpuPct(mips)
         mem == StatsMem(current_workload, cycle_delta, iter_delta, mips, cpu_pct)
         origin == [mips |-> mips, workload_type |-> ToBytes(current_workload, 4),
                    cpu_pct |-> cpu_pct]
     IN /\ to_arm' = IpcServiceSend(to_arm, mem, SizeOf(IpcMessageFlpr), origin)
        /\ st_oob' = st_oob \cup StatsStoresOutside
  /\ st_pc' = AfterSend(SendOk(to_arm))
  /\ h_sends' = h_sends + 1
  /\ UNCHANGED << st_rest, prev_cycles, prev_iterations, cycle_delta, iter_delta,
                  rep_left, h_switched, h_rep_switched >>

(***************************************************************************)
(* Reporting core.                                                         *)
(***************************************************************************)
arm_rest == << flpr_vars, radio, gatt, inv_left, rep_left, inj_left, h_switched, h_rep_switched, h_sends,
               h_scn, h_est, h_coef, h_frame, codec_vars, unit_vars >>

\* ep_bound of cpuapp.
arm_ep_bound ==
  /\ ~ipc_ready
  /\ ipc_ready' = TRUE
  /\ UNCHANGED << arm_rest, riscv_mips, riscv_workload, riscv_cpu_pct,
                  audio_frames_received, audio_voice_detected, wr_pc, wr_i,
                  wr_workload, arm_oob, arm_log, to_flpr, to_arm, wr_left,
                  h_stats_origin >>

\* The SetWorkload message of on_riscv_workload_write.
SetWorkloadMsg(workload) ==
  LET m0 == ZeroBytes(SizeOf(IpcMessageArm))
      m1 == Store(m0, OffsetOf(IpcMessageArm, "type"), <<IPC_MSG_SET_WORKLOAD>>)
  IN Store(m1, OffsetOf(IpcMessageArm, "workload"), <<workload>>)

\* on_riscv_workload_write, from entry to the return or to the first sleep
\* of the readiness wait.
arm_workload_write(selectors) ==
  /\ wr_pc = "idle"
  /\ wr_left > 0
  /\ wr_left' = wr_left - 1
  /\ \E len \in {1, 2}, workload \in selectors :
       IF len # 1
         THEN UNCHANGED << wr_pc, wr_i, wr_workload, to_flpr >>
         ELSE IF ~ipc_ready
                THEN /\ wr_pc' = "wait"
                     /\ wr_i' = 0
                     /\ wr_workload' = workload
                     /\ UNCHANGED to_flpr
                ELSE /\ to_flpr' = IpcServiceSend(to_flpr, SetWorkloadMsg(workload),
                                                  SizeOf(IpcMessageArm), <<>>)
                     /\ UNCHANGED << wr_pc, wr_i, wr_workload >>
  /\ UNCHANGED << arm_rest, ipc_ready, riscv_mips, riscv_workload, riscv_cpu_pct,
                  audio_frames_received, audio_voice_detected, arm_oob, arm_log,
                  to_arm, h_stats_origin >>

\* A wait loop without the bound on i.
WaitAgainUnbounded(i) == ~ipc_ready

\* The condition of the wait loop: i < 20 && !ipc_ready
WaitAgain(i) == i < 20 /\ ~ipc_ready

\* One evaluation of the wait loop's condition, i < 20 && !ipc_ready, with
\* the sleep and i++ when it holds and the rest of the handler when not
\* (the handler's locals end with it).
arm_workload_wait ==
  /\ wr_pc = "wait"
  /\ IF WaitAgain(wr_i)
       THEN /\ wr_i' = wr_i + 1
            /\ UNCHANGED << wr_pc, wr_workload, to_flpr >>
       ELSE /\ wr_pc' = "idle"
            /\ to_flpr' = IF ~ipc_ready
                            THEN to_flpr
                            ELSE IpcServiceSend(to_flpr, SetWorkloadMsg(wr_workload),
                                                SizeOf(IpcMessageArm), <<>>)
            /\ wr_i' = 0
            /\ wr_workload' = 0
  /\ UNCHANGED << arm_rest, ipc_ready, riscv_mips, riscv_workload, riscv_cpu_pct,
                  audio_frames_received, audio_voice_detected, arm_oob, arm_log,
                  to_arm, wr_left, h_stats_origin >>

\* The conversion of a 16-bit field of a uint32_t to int16_t.
HalfWord(b, lo) == I16(b[lo] + 256 * b[lo + 1])

\* What cpuapp's ep_recv extracts from an AudioData envelope: sample0 =
\* data[0] & 0xFFFF, sample1 = (data[0] >> 16) & 0xFFFF, likewise data[1],
\* then frame_energy = data[2] and zero_crossings = data[3] (images).
ArmAudioFields(buf, stale) ==
  LET base == OffsetOf(IpcMessageArm, "data")
      w0 == Load(buf, base, 4, stale)
      w1 == Load(buf, base + 4, 4, stale)
  IN [sample0 |-> HalfWord(w0, 1), sample1 |-> HalfWord(w0, 3),
      sample2 |-> HalfWord(w1, 1), sample3 |-> HalfWord(w1, 3),
      frame_energy |-> Load(buf, base + 8, 4, stale),
      zero_crossings |-> Load(buf, base + 12, 4, stale)]

\* ep_recv of cpuapp.  The callbacks run once the endpoint is bound.
arm_ep_recv ==
  /\ ipc_ready
  /\ to_arm # <<>>
  /\ \E stale \in StaleWords :
       LET buf == Head(to_arm).buf
           base == OffsetOf(IpcMessageArm, "data")
           type == Load(buf, OffsetOf(IpcMessageArm, "type"), 1, stale)[1]
           field(name) == Load(buf, base + OffsetOf(StatsDataArm, name),
                               FieldSize(StatsDataArm, name), stale)
           reads(name) == Outside(base + OffsetOf(StatsDataArm, name),
                                  FieldSize(StatsDataArm, name), Len(buf))
           frame_energy == Load(buf, base + 8, 4, stale)
       IN /\ arm_log' = <<type, Len(buf)>>
          /\ IF type = IPC_MSG_STATS
               THEN /\ riscv_mips' = field("mips")
                    /\ riscv_workload' = field("workload_type")
                    /\ riscv_cpu_pct' = field("cpu_pct")
                    /\ arm_oob' = arm_oob \cup reads("mips") \cup reads("workload_type")
                                          \cup reads("cpu_pct")
                    /\ h_stats_origin' = Head(to_arm).origin
                    /\ UNCHANGED << audio_frames_received, audio_voice_detected >>
               ELSE IF type = IPC_MSG_AUDIO_DATA
                 THEN /\ audio_frames_received' = AddB(audio_frames_received, ToBytes(1, 4))
                      /\ audio_voice_detected' =
                           IF GreaterThan(frame_energy, 1000)
                             THEN AddB(audio_voice_detected, ToBytes(1, 4))
                             ELSE audio_voice_detected
                      /\ arm_oob' = arm_oob \cup Outside(base, 16, Len(buf))
                      /\ UNCHANGED << riscv_mips, riscv_workload, riscv_cpu_pct,
                                      h_stats_origin >>
                 ELSE UNCHANGED << riscv_mips, riscv_workload, riscv_cpu_pct,
                                   audio_frames_received, audio_voice_detected,
                                   arm_oob, h_stats_origin >>
  /\ to_arm' = Tail(to_arm)
  /\ UNCHANGED << arm_rest, ipc_ready, wr_pc, wr_i, wr_workload, to_flpr, wr_left >>

(***************************************************************************)
(* Envelopes the transport delivers that neither task of the other core    *)
(* built: any kind byte, with a length that need not be sizeof(msg).       *)
(***************************************************************************)
InjectedBuf(type, workload, len) ==
  LET m0 == ZeroBytes(len)
      m1 == Store(m0, OffsetOf(IpcMessageFlpr, "type"), <<type>>)
  IN Store(m1, OffsetOf(IpcMessageFlpr, "workload"), <<workload>>)

Inject ==
  /\ inj_left > 0
  /\ inj_left' = inj_left - 1
  /\ \E c \in ({"cpuflpr"}
                \X {IPC_MSG_STATS, IPC_MSG_SET_WORKLOAD, IPC_MSG_HEARTBEAT,
                    IPC_MSG_AUDIO_DATA, 9}
                \X {2, SizeOf(IpcMessageFlpr), SizeOf(IpcMessageFlpr) + 4})
               \cup ({"cpuapp"} \X {IPC_MSG_STATS, IPC_MSG_AUDIO_DATA}
                       \X {2, SizeOf(IpcMessageFlpr), SizeOf(IpcMessageFlpr) + 4}) :
       LET e == [buf |-> InjectedBuf(c[2], WORKLOAD_MATRIX_MULT, c[3]), origin |-> <<>>]
       IN IF c[1] = "cpuflpr"
            THEN to_flpr' = Append(to_flpr, e) /\ UNCHANGED to_arm
            ELSE to_arm' = Append(to_arm, e) /\ UNCHANGED to_flpr
  /\ UNCHANGED << flpr_vars, arm_vars, inv_left, rep_left, wr_left, h_switched,
                  h_rep_switched, h_sends, h_scn, h_est, h_stats_origin, h_coef, h_frame,
                  codec_vars, unit_vars >>

(***************************************************************************)
(* One envelope across the cores: the writer fills its struct ipc_message  *)
(* field by field and sends sizeof(msg) bytes, the reader casts the bytes  *)
(* to its own struct ipc_message.  A 32-bit word is a pair <<hi, lo>> of   *)
(* 16-bit halves; both cores are little-endian.                            *)
(***************************************************************************)
BytesWord(b) == << b[3] + 256 * b[4], b[1] + 256 * b[2] >>

Layout(core) == IF core = "cpuapp" THEN IpcMessageArm ELSE IpcMessageFlpr

RECURSIVE StoreWords(_, _, _, _)
\* msg.data[i] = data[i] for i below n
StoreWords(mem, base, data, n) ==
  IF n = 0 THEN mem
  ELSE Store(StoreWords(mem, base, data, n - 1), base + 4 * (n - 1), ToBytes(data[n - 1][2], 2) \o ToBytes(data[n - 1][1], 2))

\* memset(&msg, 0, sizeof(msg)); msg.type = ...; msg.workload = ...; msg.data[i] = ...
EncodeMsg(layout, m) ==
  LET m0 == ZeroBytes(SizeOf(layout))
      m1 == Store(m0, OffsetOf(layout, "type"), <<m.kind>>)
      m2 == Store(m1, OffsetOf(layout, "workload"), <<m.workload>>)
  IN StoreWords(m2, OffsetOf(layout, "data"), m.data, 5)

\* struct ipc_message *msg = (struct ipc_message *)data; msg->type, ...
DecodeMsg(layout, buf) ==
  [kind |-> Load(buf, OffsetOf(layout, "type"), 1, <<0>>)[1],
   workload |-> Load(buf, OffsetOf(layout, "workload"), 1, <<0>>)[1],
   data |-> [i \in 0 .. 4 |->
               BytesWord(Load(buf, OffsetOf(layout, "data") + 4 * i, 4, Zero4))]]

cd_encode ==
  /\ cd_pc = "new"
  /\ cd_buf' = SubSeq(EncodeMsg(Layout(cd_from), cd_msg), 1, SizeOf(Layout(cd_from)))
  /\ cd_pc' = "sent"
  /\ UNCHANGED << flpr_vars, arm_vars, to_flpr, to_arm, inv_left, rep_left, wr_left,
                  inj_left, h_switched, h_rep_switched, h_sends, h_scn, h_est, h_stats_origin,
                  h_coef, h_frame, unit_vars, cd_from, cd_msg, cd_out >>

cd_decode ==
  /\ cd_pc = "sent"
  /\ cd_out' = DecodeMsg(Layout(IF cd_from = "cpuapp" THEN "cpuflpr" ELSE "cpuapp"), cd_buf)
  /\ cd_pc' = "read"
  /\ UNCHANGED << flpr_vars, arm_vars, to_flpr, to_arm, inv_left, rep_left, wr_left,
                  inj_left, h_switched, h_rep_switched, h_sends, h_scn, h_est, h_stats_origin,
                  h_coef, h_frame, unit_vars, cd_from, cd_msg, cd_buf >>

(***************************************************************************)
(* Radio side of the reporting core: the connection callbacks, the GATT    *)
(* write handlers, stream_thread and stats_thread, one step per callback   *)
(* or loop iteration.  After a fatal fault nothing runs.                   *)
(***************************************************************************)
radio_rest == << flpr_vars, ipc_ready, riscv_mips, riscv_workload, riscv_cpu_pct,
                 audio_frames_received, audio_voice_detected, wr_pc, wr_i,
                 wr_workload, arm_oob, arm_log, to_flpr, to_arm, aux_vars >>

\* connected(conn, err)
rd_connected ==
  /\ radio.left > 0
  /\ ~radio.fault
  /\ ~radio.conn
  /\ \E err \in {0, 62} :
       radio' = IF err # 0
                  THEN [radio EXCEPT !.left = @ - 1]
                  ELSE [radio EXCEPT !.conn = TRUE, !.left = @ - 1]
  /\ UNCHANGED << gatt, radio_rest >>

\* disconnected(conn, reason)
rd_disconnected ==
  /\ radio.left > 0
  /\ ~radio.fault
  /\ radio.conn
  /\ radio' = [radio EXCEPT !.conn = FALSE, !.bytes_sent = Zero4,
                            !.bytes_received = Zero4, !.notify = FALSE,
                            !.target_tx_kbps = Zero4, !.h_sent = 0, !.h_recv = 0,
                            !.left = @ - 1]
  /\ UNCHANGED << gatt, radio_rest >>

\* tx_ccc_cfg_changed(attr, value); BT_GATT_CCC_NOTIFY is 1.
rd_ccc_cfg_changed ==
  /\ radio.left > 0
  /\ ~radio.fault
  /\ radio.conn
  /\ \E value \in {0, 1} :
       radio' = [radio EXCEPT !.notify = (value = 1), !.left = @ - 1]
  /\ UNCHANGED << gatt, radio_rest >>

\* on_receive: a write of len bytes to the RX characteristic.
rd_receive ==
  /\ radio.left > 0
  /\ ~radio.fault
  /\ radio.conn
  /\ \E len \in {0, 300} :
       radio' = IF len > 0
                  THEN [radio EXCEPT !.bytes_received = AddB(@, ToBytes(len, 4)),
                                     !.h_recv = @ + len, !.left = @ - 1]
                  ELSE [radio EXCEPT !.left = @ - 1]
  /\ UNCHANGED << gatt, radio_rest >>

\* on_control_write: a write of the bytes buf to the control characteristic
\* (1000, 4 294 968 and 2^29 kbps, and a two-byte write).
rd_control_write ==
  /\ radio.left > 0
  /\ ~radio.fault
  /\ radio.conn
  /\ \E buf \in {ToBytes(1000, 4), ToBytes(4294968, 4), <<0, 0, 0, 32>>, <<232, 3>>} :
       radio' = IF Len(buf) = 4
                  THEN [radio EXCEPT !.target_tx_kbps = buf, !.left = @ - 1]
                  ELSE [radio EXCEPT !.left = @ - 1]
  /\ UNCHANGED << gatt, radio_rest >>

\* One iteration of the loop of stream_thread.  send_data returns what
\* bt_gatt_notify_cb returns: 0 or an error.  A division by zero is
\* undefined: it gives 0 or raises a fatal usage fault.
rd_stream ==
  /\ radio.left > 0
  /\ ~radio.fault
  /\ IF radio.conn /\ radio.notify
       THEN \E err \in {0, -12}, trap \in BOOLEAN :
              LET sent == IF err = 0
                            THEN [radio EXCEPT !.bytes_sent = AddB(@, ToBytes(TEST_DATA_SIZE, 4)),
                                               !.h_sent = @ + TEST_DATA_SIZE,
                                               !.left = @ - 1]
                            ELSE [radio EXCEPT !.left = @ - 1]
                  bytes_per_sec == DivB(MulB(radio.target_tx_kbps, 1000), 8)
                  delay_ms == IF GreaterThan(bytes_per_sec, TEST_DATA_SIZE * 1000)
                                THEN 0
                                ELSE (TEST_DATA_SIZE * 1000) \div FromBytes(bytes_per_sec)
              IN radio' = IF radio.target_tx_kbps = Zero4
                            THEN [sent EXCEPT !.delay_ms = ToBytes(10, 4)]
                            ELSE IF bytes_per_sec = Zero4
                            THEN [sent EXCEPT !.div0 = TRUE, !.fault = trap,
                                              !.delay_ms = ToBytes(5, 4)]
                            ELSE [sent EXCEPT !.delay_ms =
                                    ToBytes(IF delay_ms < 5 THEN 5 ELSE delay_ms, 4)]
       ELSE radio' = [radio EXCEPT !.left = @ - 1]
  /\ UNCHANGED << gatt, radio_rest >>

\* One iteration of the loop of cpuapp's stats_thread, after the sleep.
rd_stats ==
  /\ radio.left > 0
  /\ ~radio.fault
  /\ IF radio.conn
       THEN LET sent_delta == SubB(radio.bytes_sent, radio.prev_bytes_sent)
                recv_delta == SubB(radio.bytes_received, radio.prev_bytes_received)
                total_bytes_per_sec == AddB(sent_delta, recv_delta)
                throughput_kbytes_per_sec == DivB(total_bytes_per_sec, 1000)
                throughput_cost_pct == DivB(MulB(throughput_kbytes_per_sec, 5), 10)
                arm_cpu_pct == AddB(ToBytes(10, 4), throughput_cost_pct)
            IN radio' = [radio EXCEPT !.sent_delta = sent_delta,
                                      !.recv_delta = recv_delta,
                                      !.prev_bytes_sent = radio.bytes_sent,
                                      !.prev_bytes_received = radio.bytes_received,
                                      !.arm_cpu_pct = IF GreaterThan(arm_cpu_pct, 100)
                                                        THEN ToBytes(100, 4)
                                                        ELSE arm_cpu_pct,
                                      !.h_sent = 0, !.h_recv = 0,
                                      !.reports = @ + 1, !.left = @ - 1]
       ELSE radio' = [radio EXCEPT !.left = @ - 1]
  /\ UNCHANGED << gatt, radio_rest >>

(***************************************************************************)
(* The fast GATT peripheral: its callbacks and the loop of stream_thread,  *)
(* which the callbacks preempt between its statements.                     *)
(***************************************************************************)
\* notify_sent_cb, run by the stack for a notification it has sent.  The
\* count of tx_sem does not pass its limit in k_sem_give.
gp_notify_sent_cb ==
  /\ gatt.unacked > 0
  /\ gatt' = [gatt EXCEPT !.unacked = @ - 1, !.tx_sem = IF @ < TX_BUF_COUNT THEN @ + 1 ELSE @]
  /\ UNCHANGED << radio, radio_rest >>

\* tx_ccc_cfg_changed(attr, value), called when the subscription changes.
\* k_sem_reset ends a pending k_sem_take.
gp_tx_ccc_cfg_changed ==
  /\ gatt.conn
  /\ \E value \in {0, 1} :
       /\ (value = 1) # gatt.notify_enabled
       /\ gatt' = IF value = 1
                    THEN [gatt EXCEPT !.notify_enabled = TRUE, !.tx_sem = TX_BUF_COUNT]
                    ELSE [gatt EXCEPT !.notify_enabled = FALSE, !.tx_sem = 0,
                                      !.aborted = (gatt.pc = "take")]
  /\ UNCHANGED << radio, radio_rest >>

\* connected(conn, err)
gp_connected ==
  /\ ~gatt.conn
  /\ \E err \in {0, 62} :
       gatt' = IF err # 0 THEN gatt ELSE [gatt EXCEPT !.conn = TRUE]
  /\ UNCHANGED << radio, radio_rest >>

\* disconnected(conn, reason)
gp_disconnected ==
  /\ gatt.conn
  /\ gatt' = [gatt EXCEPT !.conn = FALSE, !.notify_enabled = FALSE, !.dle_ready = FALSE,
                          !.tx_sem = 0, !.aborted = (gatt.pc = "take")]
  /\ UNCHANGED << radio, radio_rest >>

\* le_data_len_updated(conn, info) with info->tx_max_len 27 or 251.
gp_le_data_len_updated ==
  /\ gatt.conn
  /\ \E tx_max_len \in {27, 251} :
       gatt' = IF tx_max_len >= 251 THEN [gatt EXCEPT !.dle_ready = TRUE] ELSE gatt
  /\ UNCHANGED << radio, radio_rest >>

\* stream_thread, statement by statement: the test at the loop head, the
\* k_sem_take, the second test of notify_enabled, and bt_gatt_notify_cb with
\* what follows it.  bt_gatt_notify_cb returns 0 or an error; without a
\* connection it returns an error.
gp_stream_thread ==
  /\ \/ /\ gatt.pc = "loop"
        /\ gatt' = IF ~gatt.notify_enabled \/ ~gatt.dle_ready
                     THEN gatt
                     ELSE [gatt EXCEPT !.pc = "take"]
     \/ /\ gatt.pc = "take"
        /\ gatt.aborted \/ gatt.tx_sem > 0
        /\ gatt' = IF gatt.aborted
                     THEN [gatt EXCEPT !.aborted = FALSE, !.pc = "test"]
                     ELSE [gatt EXCEPT !.tx_sem = @ - 1, !.pc = "test"]
     \/ /\ gatt.pc = "test"
        /\ gatt' = [gatt EXCEPT !.pc = IF ~gatt.notify_enabled THEN "loop" ELSE "notify"]
     \/ /\ gatt.pc = "notify"
        /\ \E err \in {0, -12} :
             /\ err = 0 => (gatt.conn /\ gatt.unacked < MaxUnacked)
             /\ gatt' = IF err # 0
                          THEN [gatt EXCEPT !.tx_sem = IF @ < TX_BUF_COUNT THEN @ + 1 ELSE @, !.pc = "loop"]
                          ELSE [gatt EXCEPT !.unacked = @ + 1, !.pc = "loop"]
  /\ UNCHANGED << radio, radio_rest >>

(***************************************************************************)
(* The loops of the workload kernels.  Every loop of a kernel is a for     *)
(* loop over an int that its body does not write; a loop is given as       *)
(* <<depth, first value, bound, step, relation>>, in source order, depth 0 *)
(* for a loop of the kernel's body and depth d + 1 for a loop in the body  *)
(* of the closest preceding loop of depth d.  The relation is the loop     *)
(* condition on the variable v: "const" is v < bound, "minus" is           *)
(* v < bound - outer, "upto" is v < bound && v <= outer and "taps" is      *)
(* v < bound && v < AEC_FILTER_TAPS, outer being the variable of the       *)
(* enclosing loop.                                                         *)
(***************************************************************************)
RECURSIVE KernelLoops(_)
\* The loops execute_workload runs for a workload byte: those of the kernel
\* of its case, the four kernels of workload_mixed in turn for Mixed (5), and
\* none for Idle and for a byte that is no kind (one k_sleep of 100 ms).
KernelLoops(workload) ==
  CASE
       workload = WORKLOAD_MATRIX_MULT ->
         <<<<0, 0, 4, 1, "const">>,
           <<1, 0, 4, 1, "const">>,
           <<0, 0, 4, 1, "const">>,
           <<1, 0, 4, 1, "const">>,
           <<2, 0, 4, 1, "const">>>>
    [] workload = 2 ->   \* Sorting
         <<<<0, 0, 32, 1, "const">>,
           <<0, 0, 31, 1, "const">>,
           <<1, 0, 31, 1, "minus">>>>
    [] workload = 3 ->   \* FftSim
         <<<<0, 0, 16, 1, "const">>,
           <<0, 0, 4, 1, "const">>,
           <<1, 0, 16, 2, "const">>>>
    [] workload = 4 ->   \* CryptoSim
         <<<<0, 0, 16, 1, "const">>,
           <<0, 0, 4, 1, "const">>,
           <<1, 0, 16, 1, "const">>,
           <<1, 0, 4, 1, "const">>>>
    [] workload = 5 ->
         KernelLoops(WORKLOAD_MATRIX_MULT) \o KernelLoops(2) \o KernelLoops(3)
           \o KernelLoops(4)
    [] workload = WORKLOAD_AUDIO_PIPELINE ->
         <<<<0, 0, NUM_MICS, 1, "const">>,
           <<1, 0, FRAME_SIZE, 1, "const">>,
           <<0, 0, NUM_MICS, 1, "const">>,
           <<1, 0, FRAME_SIZE, 1, "const">>,
           <<1, 2, FRAME_SIZE, 1, "const">>,
           <<0, 0, FRAME_SIZE, 1, "const">>,
           <<0, 0, FRAME_SIZE, 1, "const">>,
           <<0, 0, FRAME_SIZE, 1, "const">>,
           <<0, 0, FRAME_SIZE, 1, "const">>>>
    [] workload = WORKLOAD_AUDIO_PIPELINE_AEC ->
         <<<<0, 0, NUM_MICS, 1, "const">>,
           <<1, 0, FRAME_SIZE, 1, "const">>,
           <<0, 0, NUM_MICS, 1, "const">>,
           <<1, 0, FRAME_SIZE, 1, "const">>,
           <<1, 2, FRAME_SIZE, 1, "const">>,
           <<0, 0, FRAME_SIZE, 1, "const">>,
           <<0, 0, FRAME_SIZE, 1, "const">>,
           <<0, 0, FRAME_SIZE, 1, "const">>,
           <<0, 0, FRAME_SIZE, 1, "const">>,
           <<0, 0, FRAME_SIZE, 1, "taps">>,
           <<0, 0, FRAME_SIZE, 1, "const">>,
           <<1, 0, AEC_FILTER_TAPS, 1, "upto">>,
           <<1, 0, AEC_FILTER_TAPS, 1, "upto">>,
           <<1, 0, AEC_FILTER_TAPS, 1, "upto">>,
           <<0, 0, FRAME_SIZE, 1, "const">>,
           <<0, 0, FRAME_SIZE, 1, "const">>>>
    [] workload = 8 ->   \* ProximityVad
         <<<<0, 0, NUM_MICS, 1, "const">>,
           <<1, 0, FRAME_SIZE, 1, "const">>,
           <<0, 0, NUM_MICS, 1, "const">>,
           <<1, 0, FRAME_SIZE, 1, "const">>,
           <<0, 0, NUM_MICS, 1, "const">>,
           <<0, 0, NUM_MICS, 1, "const">>,
           <<0, 0, NUM_MICS, 1, "const">>,
           <<1, 1, FRAME_SIZE, 1, "const">>>>
    [] workload = 9 ->   \* ChestResonance
         <<<<0, 0, NUM_MICS, 1, "const">>,
           <<1, 0, FRAME_SIZE, 1, "const">>,
           <<0, 0, NUM_MICS, 1, "const">>,
           <<1, 4, FRAME_SIZE, 4, "const">>,
           <<0, 0, NUM_MICS, 1, "const">>,
           <<0, 0, NUM_MICS, 1, "const">>>>
    [] workload = 10 ->   \* ClothingRustle
         <<<<0, 0, NUM_MICS, 1, "const">>,
           <<1, 0, FRAME_SIZE, 1, "const">>,
           <<0, 2, FRAME_SIZE, 1, "const">>,
           <<1, 0, NUM_MICS, 1, "const">>,
           <<1, 0, NUM_MICS, 1, "const">>,
           <<0, 0, FRAME_SIZE, 1, "const">>>>
    [] workload = 11 ->   \* SpatialNoiseCancel
         <<<<0, 0, NUM_MICS, 1, "const">>,
           <<1, 0, FRAME_SIZE, 1, "const">>,
           <<0, 0, FRAME_SIZE, 1, "const">>,
           <<0, 0, FRAME_SIZE, 1, "const">>,
           <<0, 32, FRAME_SIZE, 1, "const">>,
           <<1, 0, 32, 1, "const">>,
           <<1, 0, 32, 1, "const">>,
           <<0, 0, FRAME_SIZE, 1, "const">>>>
    [] workload = 12 ->   \* WindNoiseReduction
         <<<<0, 0, NUM_MICS, 1, "const">>,
           <<1, 0, FRAME_SIZE, 1, "const">>,
           <<0, 0, NUM_MICS, 1, "const">>,
           <<1, 8, FRAME_SIZE, 8, "const">>,
           <<0, 0, FRAME_SIZE, 1, "const">>,
           <<0, 1, NUM_MICS, 1, "const">>,
           <<0, 0, FRAME_SIZE, 1, "const">>,
           <<0, 0, FRAME_SIZE, 1, "const">>>>
    [] workload = WORKLOAD_NECKLACE_FULL ->
         <<<<0, 0, NUM_MICS, 1, "const">>,
           <<1, 0, FRAME_SIZE, 1, "const">>,
           <<1, 0, FRAME_SIZE, 1, "const">>,
           <<1, 0, FRAME_SIZE, 1, "const">>,
           <<0, 0, FRAME_SIZE, 1, "const">>,
           <<0, 0, FRAME_SIZE, 8, "const">>,
           <<0, 0, FRAME_SIZE, 1, "const">>,
           <<0, 2, FRAME_SIZE, 1, "const">>,
           <<0, 0, NUM_MICS, 1, "const">>,
           <<1, 0, FRAME_SIZE, 1, "const">>,
           <<0, 0, NUM_MICS, 1, "const">>,
           <<0, 0, FRAME_SIZE, 1, "const">>,
           <<0, 0, FRAME_SIZE, 1, "const">>,
           <<0, 0, FRAME_SIZE, 1, "const">>,
           <<0, 4, FRAME_SIZE, 4, "const">>>>
    [] OTHER -> <<>>

\* The increment expression of a for loop.
NextLoopVarStuck(v, step) == v

NextLoopVar(v, step) == v + step

RECURSIVE LoopTrips(_, _, _, _, _)
RECURSIVE BodyRun(_, _, _, _)
\* Loop idx from the point at which it tests its condition, for at most n
\* tests.  at.v is the loop variable, at.trips the executions of its body so
\* far and at.steps the loop-body executions counted so far, -1 once some
\* loop has reached MaxLoopTrips executions with its condition still true;
\* at.done says that the condition was found false.  The n tests are taken
\* as two halves, one after the other.
LoopTrips(loops, idx, at, outer, n) ==
  IF at.done \/ at.steps < 0
  THEN at
  ELSE IF n > 1
  THEN Only({LoopTrips(loops, idx, half, outer, n - (n \div 2)) :
             half \in {LoopTrips(loops, idx, at, outer, n \div 2)}})
  ELSE IF ~ (CASE loops[idx][5] = "const" -> at.v < loops[idx][3]
               [] loops[idx][5] = "minus" -> at.v < loops[idx][3] - outer
               [] loops[idx][5] = "upto" -> at.v < loops[idx][3] /\ at.v <= outer
               [] loops[idx][5] = "taps" ->
                    at.v < loops[idx][3] /\ at.v < AEC_FILTER_TAPS)
  THEN [at EXCEPT !.done = TRUE]
  ELSE IF at.trips >= MaxLoopTrips
  THEN [at EXCEPT !.steps = -1]
  ELSE Only({[v |-> NextLoopVar(at.v, loops[idx][4]),
              steps |-> IF body < 0 THEN -1 ELSE at.steps + 1 + body,
              trips |-> at.trips + 1,
              done |-> FALSE] :
             body \in {BodyRun(loops, idx + 1, loops[idx][1] + 1, at.v)}})

\* The loops of one body: those of the given depth from idx on, up to the
\* first loop of a smaller depth.  The result is the number of loop-body
\* executions, -1 when a loop does not end within MaxLoopTrips executions.
BodyRun(loops, idx, depth, outer) ==
  IF idx > Len(loops)
  THEN 0
  ELSE IF loops[idx][1] < depth
  THEN 0
  ELSE IF loops[idx][1] > depth
  THEN BodyRun(loops, idx + 1, depth, outer)
  ELSE Only({IF run.steps < 0
             THEN -1
             ELSE Only({IF rest < 0 THEN -1 ELSE run.steps + rest :
                        rest \in {BodyRun(loops, idx + 1, depth, outer)}}) :
             run \in {LoopTrips(loops, idx,
                                [v |-> loops[idx][2], steps |-> 0, trips |-> 0,
                                 done |-> FALSE],
                                outer, MaxLoopTrips + 1)}})

(***************************************************************************)
(* Single computations of the firmware on given operands: the telemetry    *)
(* arithmetic on a cycle delta, the VAD decision on an energy and a        *)
(* zero-crossing count, the AGC gain on an rms value, and an AudioData     *)
(* message of each pipeline on given output samples, read by cpuapp.       *)
(***************************************************************************)
\* The operands.  Cycle deltas (64-bit images): 0, 15 000 000 and its
\* neighbour, the deltas that give 128, 1280 and 1281 MIPS, and two deltas
\* of the first report after a switch, 0 - prev_cycles, for prev_cycles =
\* 7 428 574 255 161 and prev_cycles = 128.  Frame energies (an int32_t,
\* negative after an overflow) and zero-crossing counts (0 .. FRAME_SIZE - 1).
\* rms values: signal_energy / FRAME_SIZE of an int32_t signal_energy.
\* Output samples (int16_t).  Workload bytes: the 14 kinds and three bytes
\* that are no kind.  Near-end and far-end energies around 500 with an
\* error_signal of -64 .. 63, and of 500 times that.
UnitInputs ==
  {[op |-> "stats", cycle_delta |-> cd, iter_delta |-> ToBytes(1, 4),
     workload |-> WORKLOAD_MATRIX_MULT] :
     cd \in {Zero8, ToBytes(15000000, 8), ToBytes(14999999, 8), ToBytes(192000000, 8),
             MulB(ToBytes(192000000, 8), 10), MulB(ToBytes(192150000, 8), 10),
             SubB(Zero8, <<57, 152, 135, 153, 193, 6, 0, 0>>),
             SubB(Zero8, ToBytes(128, 8))}}
    \cup {[op |-> "vad", frame_energy |-> e, zero_crossings |-> z] :
            e \in {-5, 0, 999, 1000, 1001, 1200, 54472},
            z \in {0, 5, 10, 11, 20, 79, 80, 81, 127}}
    \cup {[op |-> "agc", rms |-> r] :
            r \in {-12158472, 0, 1, 6, 7, 999, 1000, 1999, 2000, 7999, 8000, 873692,
                   16777215}}
    \cup {[op |-> "audio", out |-> [i \in 0 .. 3 |-> IF i \in {0, 3} THEN a ELSE b],
           frame_energy |-> e, zero_crossings |-> 20, double_talk |-> d] :
            a \in {-32768, -1, 0, 1, 32767}, b \in {-32768, -1, 0, 1, 32767},
            e \in {1001, 54472}, d \in BOOLEAN}
    \cup {[op |-> "select", workload |-> w] : w \in {0, 1, 13, 200, 255}}
    \cup {[op |-> "dispatch", workload |-> w] : w \in 0 .. 13 \cup {14, 200, 255}}
    \cup {[op |-> "dtalk", near_end_energy |-> ne, far_end_energy |-> fe,
           processed_output |-> [i \in Samples |-> 1000 - i],
           error_signal |-> [i \in Samples |-> (i - 64) * m]] :
            ne \in {-5, 0, 500, 501, 54472}, fe \in {0, 500, 501, 1170369},
            m \in {1, 500}}

unit_rest == << flpr_vars, arm_vars, to_flpr, to_arm, inv_left, rep_left, wr_left,
                inj_left, h_switched, h_rep_switched, h_sends, h_scn, h_est, h_stats_origin,
                h_coef, h_frame, codec_vars, u_in, u_frames >>

\* instructions, mips and cpu_pct of stats_thread.
u_stats ==
  /\ u_pc = "new"
  /\ u_in.op = "stats"
  /\ \E mips \in {Mips(u_in.cycle_delta)} :
       u_out' = [mips |-> mips,
                 cpu_pct |-> CpuPct(mips),
                 msg |-> Envelope(StatsMem(u_in.workload, u_in.cycle_delta,
                                           u_in.iter_delta, mips, CpuPct(mips)),
                                  SizeOf(IpcMessageFlpr), <<>>).buf]
  /\ u_pc' = "done"
  /\ UNCHANGED unit_rest

\* bool voice_detected = ... of the two pipelines.
u_vad ==
  /\ u_pc = "new"
  /\ u_in.op = "vad"
  /\ u_out' = [plain |-> VoiceDetectedPlain(u_in.frame_energy, u_in.zero_crossings),
               aec |-> VoiceDetected(u_in.frame_energy, u_in.zero_crossings)]
  /\ u_pc' = "done"
  /\ UNCHANGED unit_rest

\* int16_t gain of the three pipelines that have an AGC stage.
u_agc ==
  /\ u_pc = "new"
  /\ u_in.op = "agc"
  /\ u_out' = [plain |-> AgcGainPlain(u_in.rms), aec |-> AgcGain(u_in.rms),
               necklace |-> AgcGainNecklace(u_in.rms)]
  /\ u_pc' = "done"
  /\ UNCHANGED unit_rest

\* The AudioData message each pipeline builds from its output samples and
\* VAD metrics, as sent: sizeof(msg) bytes.
u_audio_send ==
  /\ u_pc = "new"
  /\ u_in.op = "audio"
  /\ u_out' = [plain |-> SubSeq(AudioMsgPlain([processed_output |-> u_in.out,
                                                frame_energy |-> u_in.frame_energy,
                                                zero_crossings |-> u_in.zero_crossings]),
                                 1, SizeOf(IpcMessageFlpr)),
               aec |-> SubSeq(AudioMsgAec([final_output |-> u_in.out,
                                            frame_energy |-> u_in.frame_energy,
                                            zero_crossings |-> u_in.zero_crossings,
                                            double_talk |-> u_in.double_talk]),
                              1, SizeOf(IpcMessageFlpr))]
  /\ u_pc' = "sent"
  /\ UNCHANGED unit_rest

\* cpuapp's ep_recv extracting the fields of both messages.
u_audio_recv ==
  /\ u_pc = "sent"
  /\ \E stale \in StaleWords :
       u_out' = [plain |-> u_out.plain, aec |-> u_out.aec,
                 plain_read |-> ArmAudioFields(u_out.plain, stale),
                 aec_read |-> ArmAudioFields(u_out.aec, stale)]
  /\ u_pc' = "done"
  /\ UNCHANGED unit_rest

\* The SetWorkload envelope on_riscv_workload_write hands to the transport.
u_select ==
  /\ u_pc = "new"
  /\ u_in.op = "select"
  /\ u_out' = [msg |-> Envelope(SetWorkloadMsg(u_in.workload), SizeOf(IpcMessageArm),
                                <<>>).buf]
  /\ u_pc' = "done"
  /\ UNCHANGED unit_rest

\* One call of execute_workload: the loops of the kernel of the workload byte
\* run to their end.
u_dispatch ==
  /\ u_pc = "new"
  /\ u_in.op = "dispatch"
  /\ \E loops \in {KernelLoops(u_in.workload)} :
       u_out' = [kernel |-> loops # <<>>, steps |-> BodyRun(loops, 1, 0, 0)]
  /\ u_pc' = "done"
  /\ UNCHANGED unit_rest

\* The double-talk decision and the residual echo suppression of the
\* echo-canceller frame.
u_dtalk ==
  /\ u_pc = "new"
  /\ u_in.op = "dtalk"
  /\ \E double_talk \in {DoubleTalk(u_in.near_end_energy, u_in.far_end_energy)} :
       u_out' = [double_talk |-> double_talk,
                 final_output |-> FinalOutput(double_talk, u_in.processed_output,
                                              u_in.error_signal)]
  /\ u_pc' = "done"
  /\ UNCHANGED unit_rest

(***************************************************************************)
(* Specifications.                                                         *)
(***************************************************************************)
\* The two cores with selector writes of Idle, MatrixMult and a byte that is
\* no kind.
Next ==
  \/ flpr_ep_recv
  \/ wl_check
  \/ wl_exec
  \/ wl_addc_ld
  \/ wl_addc_st
  \/ wl_inc_ld
  \/ wl_inc_st
  \/ st_delta_cycles
  \/ st_delta_iter
  \/ st_snap_cycles
  \/ st_snap_iter
  \/ st_send
  \/ arm_ep_bound
  \/ arm_workload_write(SelectorBytes)
  \/ arm_workload_wait
  \/ arm_ep_recv

Spec == Init /\ [][Next]_vars

\* The same with envelopes of any kind and length arriving as well.
InitEnv ==
  /\ InitProgram
  /\ inv_left = MaxEnvOps
  /\ rep_left = MaxEnvOps
  /\ wr_left = MaxEnvOps
  /\ inj_left = MaxInject
  /\ CodecOff
  /\ UnitOff

NextEnv == Next \/ Inject

SpecEnv == InitEnv /\ [][NextEnv]_vars

\* The workload task running echo-canceller frames between selector writes.
InitAec ==
  /\ InitProgram
  /\ inv_left = MaxAecFrames
  /\ rep_left = 0
  /\ wr_left = MaxWrites
  /\ inj_left = 0
  /\ CodecOff
  /\ UnitOffFrames

NextAec ==
  \/ flpr_ep_recv
  \/ wl_check
  \/ wl_exec
  \/ wl_addc_ld
  \/ wl_addc_st
  \/ wl_inc_ld
  \/ wl_inc_st
  \/ arm_ep_bound
  \/ arm_workload_write(AecSelectorBytes)
  \/ arm_workload_wait

SpecAec == InitAec /\ [][NextAec]_vars

\* Consecutive echo-canceller frames with telemetry reports and selector
\* writes in between.
InitPersist ==
  /\ InitProgram
  /\ inv_left = MaxAecRuns
  /\ rep_left = MaxEnvOps
  /\ wr_left = MaxWrites
  /\ inj_left = 0
  /\ CodecOff
  /\ UnitOffFrames

NextPersist ==
  \/ flpr_ep_recv
  \/ wl_check
  \/ wl_exec
  \/ wl_addc_ld
  \/ wl_addc_st
  \/ wl_inc_ld
  \/ wl_inc_st
  \/ arm_ep_bound
  \/ arm_workload_write(AecSelectorBytes)
  \/ arm_workload_wait
  \/ st_delta_cycles
  \/ st_delta_iter
  \/ st_snap_cycles
  \/ st_snap_iter
  \/ st_send

SpecPersist == InitPersist /\ [][NextPersist]_vars

\* The workload task and the selector writes, two invocations, with the
\* workload task scheduled fairly: a step of its loop that can be taken is
\* taken.
SpecDispatch ==
  /\ InitPersist
  /\ [][NextAec]_vars
  /\ WF_vars(wl_check \/ wl_exec \/ wl_addc_ld \/ wl_addc_st \/ wl_inc_ld \/ wl_inc_st)

\* The radio side of the reporting core from start, MaxRadioOps callbacks and
\* loop iterations.
NextRadio ==
  \/ rd_connected
  \/ rd_disconnected
  \/ rd_ccc_cfg_changed
  \/ rd_receive
  \/ rd_control_write
  \/ rd_stream
  \/ rd_stats

SpecRadio == Init /\ [][NextRadio]_vars

\* The fast GATT peripheral from start.
NextGatt ==
  \/ gp_notify_sent_cb
  \/ gp_tx_ccc_cfg_changed
  \/ gp_connected
  \/ gp_disconnected
  \/ gp_le_data_len_updated
  \/ gp_stream_thread

SpecGatt == Init /\ [][NextGatt]_vars

\* Frames of the workload task with the endpoint bound, from the states in
\* which a SetWorkload has just made a kind active and an earlier kernel has
\* left its value in work_result (0, or 618: the chest-resonance and the
\* spatial kernels leave an energy average there); cpuapp receives what the
\* frames send.
InitFrame ==
  /\ current_workload \in {WORKLOAD_MATRIX_MULT, WORKLOAD_AUDIO_PIPELINE,
                            WORKLOAD_AUDIO_PIPELINE_AEC}
  /\ total_work_cycles = Zero8
  /\ work_iterations = Zero4
  /\ work_result \in {Zero4, ToBytes(618, 4)}
  /\ aec_filter = ZeroTaps
  /\ far_end_buffer = ZeroTaps
  /\ wl_pc = "check"
  /\ wl_cycles = Zero8
  /\ wl_reg = Zero8
  /\ st_pc = "sleep"
  /\ prev_cycles = Zero8
  /\ prev_iterations = Zero4
  /\ cycle_delta = Zero8
  /\ iter_delta = Zero4
  /\ st_oob = {}
  /\ flpr_log = <<IPC_MSG_SET_WORKLOAD, SizeOf(IpcMessageArm)>>
  /\ to_flpr = <<>>
  /\ to_arm = <<>>
  /\ ipc_ready = TRUE
  /\ riscv_mips = Zero4
  /\ riscv_workload = Zero4
  /\ riscv_cpu_pct = Zero4
  /\ audio_frames_received = Zero4
  /\ audio_voice_detected = Zero4
  /\ wr_pc = "idle"
  /\ wr_i = 0
  /\ wr_workload = 0
  /\ arm_oob = {}
  /\ arm_log = <<>>
  /\ h_switched = TRUE
  /\ h_rep_switched = FALSE
  /\ h_sends = 0
  /\ radio = RadioBoot
  /\ gatt = GattBoot
  /\ h_scn = "off"
  /\ h_est = <<>>
  /\ h_stats_origin = <<>>
  /\ h_coef = [ok |-> TRUE, hit |-> FALSE]
  /\ h_frame = [audio |-> FALSE, voice |-> FALSE, sends |-> 0,
                handler |-> WORKLOAD_IDLE, double_talk |-> FALSE,
                filt_in |-> ZeroTaps, filt_prev |-> ZeroTaps, filt_out |-> ZeroTaps]
  /\ inv_left = MaxInvocations
  /\ rep_left = 0
  /\ wr_left = 0
  /\ inj_left = 0
  /\ CodecOff
  /\ UnitOff

NextFrame ==
  \/ wl_check
  \/ wl_exec
  \/ wl_addc_ld
  \/ wl_addc_st
  \/ wl_inc_ld
  \/ wl_inc_st
  \/ arm_ep_recv

SpecFrame == InitFrame /\ [][NextFrame]_vars

\* The workload-selector write handler of cpuapp with ep_bound and the
\* compute core's receive callback; a handler that is waiting goes on.
InitWrite ==
  /\ InitProgram
  /\ inv_left = 0
  /\ rep_left = 0
  /\ wr_left = MaxWrites
  /\ inj_left = 0
  /\ CodecOff
  /\ UnitOff

NextWrite ==
  \/ arm_ep_bound
  \/ arm_workload_write(SelectorBytes)
  \/ arm_workload_wait
  \/ flpr_ep_recv

SpecWrite == InitWrite /\ [][NextWrite]_vars /\ WF_vars(arm_workload_wait)

\* One computation on each of the operands of UnitInputs.
InitUnit ==
  /\ InitProgram
  /\ inv_left = 0
  /\ rep_left = 0
  /\ wr_left = 0
  /\ inj_left = 0
  /\ CodecOff
  /\ u_pc = "new"
  /\ u_in \in UnitInputs
  /\ u_out = <<>>
  /\ u_frames = {}

NextUnit == u_stats \/ u_vad \/ u_agc \/ u_audio_send \/ u_audio_recv \/ u_dispatch
              \/ u_dtalk \/ u_select

SpecUnit == InitUnit /\ [][NextUnit]_vars

\* One envelope of every kind, workload byte and payload, in each direction.
InitCodec ==
  /\ InitProgram
  /\ inv_left = 0
  /\ rep_left = 0
  /\ wr_left = 0
  /\ inj_left = 0
  /\ cd_pc = "new"
  /\ cd_from \in {"cpuapp", "cpuflpr"}
  /\ cd_msg \in [kind : {IPC_MSG_STATS, IPC_MSG_SET_WORKLOAD, IPC_MSG_HEARTBEAT,
                         IPC_MSG_AUDIO_DATA},
                 workload : {WORKLOAD_IDLE, WORKLOAD_NECKLACE_FULL, 255},
                 data : [0 .. 4 -> {<<0, 0>>, <<258, 772>>, <<65535, 65535>>}]]
  /\ cd_buf = <<>>
  /\ cd_out = <<>>
  /\ UnitOff

NextCodec == cd_encode \/ cd_decode

SpecCodec == InitCodec /\ [][NextCodec]_vars

(***************************************************************************)
(* Properties.                                                             *)
(***************************************************************************)
\* The step is cpuflpr's ep_recv taking the envelope at the head of its queue.
FlprReceives == to_flpr # <<>> /\ to_flpr' = Tail(to_flpr)

\* Kind byte, workload byte and length of the envelope at the head of a queue.
HeadType(chan) == Head(chan).buf[1]

HeadWorkload(chan) == Head(chan).buf[2]

HeadLen(chan) == Len(Head(chan).buf)

RECURSIVE SumFirst(_, _)
\* The sum of the first n entries of a sequence of numbers.
SumFirst(seq, n) == IF n = 0 THEN 0 ELSE seq[n] + SumFirst(seq, n - 1)

\* C1: when the compute core receives a SetWorkload envelope naming a new
\* kind, both accumulators become zero, and the deltas of the next Stats
\* report count only the work since the switch: they are the accumulators as
\* the telemetry task reads them, whatever its previous snapshot held.
C1_DeltasCountWorkSinceSwitch ==
  [][ /\ (FlprReceives /\ HeadType(to_flpr) = IPC_MSG_SET_WORKLOAD
            /\ HeadWorkload(to_flpr) # current_workload)
           => (total_work_cycles' = Zero8 /\ work_iterations' = Zero4)
      /\ (st_pc = "sleep" /\ st_pc' = "l1219" /\ h_switched)
           => cycle_delta' = total_work_cycles
      /\ (st_pc = "l1219" /\ st_pc' = "l1221" /\ h_rep_switched)
           => iter_delta' = work_iterations ]_vars

\* C2: from the initial Idle state, after SetWorkload(MatrixMult), the first
\* Stats report carries iterationDelta = N and cycleDelta = the sum of the
\* cycle estimates of the same N invocations, for some number N of
\* invocations that have returned, in every interleaving of the two tasks.
C2_ReportMatchesInvocations ==
  (st_pc \in {"l1221", "l1222", "l1228"} /\ h_scn = "mm" /\ h_rep_switched)
    => \E n \in 0 .. Len(h_est) :
         /\ iter_delta = ToBytes(n, 4)
         /\ cycle_delta = ToBytes(SumFirst(h_est, n), 8)

\* C3: every one of the 256 adaptive-filter coefficients is in [-8192, 8192]
\* after each coefficient update and at the end of every frame.
C3_CoefficientsInRange == h_coef.ok /\ CoefInRange(aec_filter)

\* An echo-canceller frame has run, some of its updates left a coefficient
\* at a limit, and the frame ended with non-zero coefficients.
C3_Witness ==
  /\ current_workload = WORKLOAD_AUDIO_PIPELINE_AEC
  /\ aec_filter # ZeroTaps
  /\ h_coef.hit

\* C4: round trip of the envelope: for every kind, workload byte and five
\* payload words, the 24 bytes one core writes are read by the other core
\* as the same kind, workload and payload words.
C4_RoundTrip ==
  cd_pc = "read"
    => /\ Len(cd_buf) = 24
       /\ cd_out.kind = cd_msg.kind
       /\ cd_out.workload = cd_msg.workload
       /\ cd_out.data = cd_msg.data

\* An AudioData envelope with a non-zero workload byte and distinct payload
\* words, among them 0xFFFFFFFF, written by the compute core, has been read
\* by the reporting core.
C4_Witness ==
  /\ cd_pc = "read"
  /\ cd_from = "cpuflpr"
  /\ cd_msg.kind = IPC_MSG_AUDIO_DATA
  /\ cd_msg.workload = 255
  /\ cd_msg.data[0] = <<258, 772>>
  /\ cd_msg.data[4] = <<65535, 65535>>

\* C5: every Stats field the telemetry task writes and every Stats field
\* the reporting core reads lies inside the envelope that is sent: no
\* access falls at an offset past its end.
C5_StatsFieldsInsideEnvelope == st_oob = {} /\ arm_oob = {}

\* C6: after the reporting core received a Stats envelope, its last-known
\* remote MIPS, workload and CPU percent are the values the telemetry task
\* computed for that report, and the CPU percent is at most 100.
C6_RemoteStatsMatch ==
  h_stats_origin # <<>>
    => /\ riscv_mips = h_stats_origin.mips
       /\ riscv_workload = h_stats_origin.workload_type
       /\ riscv_cpu_pct = h_stats_origin.cpu_pct
       /\ ~GreaterThan(riscv_cpu_pct, 100)

\* C7: a received envelope whose length is not sizeof(struct ipc_message)
\* changes neither the active workload nor the accumulators on the compute
\* core, and neither the remote stats nor the audio counters on the
\* reporting core.
C7_WrongLengthDiscarded ==
  [][ /\ (FlprReceives /\ HeadLen(to_flpr) # SizeOf(IpcMessageFlpr))
           => UNCHANGED << current_workload, total_work_cycles, work_iterations >>
      /\ (to_arm # <<>> /\ to_arm' = Tail(to_arm) /\ HeadLen(to_arm) # SizeOf(IpcMessageArm))
           => UNCHANGED << riscv_mips, riscv_workload, riscv_cpu_pct,
                           audio_frames_received, audio_voice_detected >> ]_vars

\* C8: the active workload changes only in the step that receives a
\* SetWorkload envelope (so neither task writes it), and the receipt of an
\* envelope of any other kind leaves the active workload and both
\* accumulators unchanged.
C8_WorkloadChangesOnlyOnSetWorkload ==
  [][ /\ current_workload' # current_workload
           => (FlprReceives /\ HeadType(to_flpr) = IPC_MSG_SET_WORKLOAD)
      /\ (FlprReceives /\ HeadType(to_flpr) # IPC_MSG_SET_WORKLOAD)
           => UNCHANGED << current_workload, total_work_cycles, work_iterations >> ]_vars

\* An envelope of an unrecognized kind has been received while MatrixMult
\* was active and had accumulated work, which is still there.
C8_Witness ==
  /\ flpr_log # <<>>
  /\ flpr_log[1] = 9
  /\ current_workload = WORKLOAD_MATRIX_MULT
  /\ work_iterations # Zero4
  /\ total_work_cycles # Zero8

\* C9: the active workload is always one of the 14 kinds, ordinals 0..13.
C9_WorkloadIsAKind == current_workload \in WORKLOAD_IDLE .. WORKLOAD_NECKLACE_FULL

\* C10: when a SetWorkload envelope switches the compute core from the AEC
\* workload to another kind, the adaptive filter state (coefficients and
\* reference history) is reset to zero.
C10_FilterResetOnSwitchFromAec ==
  [][ (FlprReceives /\ HeadType(to_flpr) = IPC_MSG_SET_WORKLOAD
         /\ current_workload = WORKLOAD_AUDIO_PIPELINE_AEC
         /\ HeadWorkload(to_flpr) # WORKLOAD_AUDIO_PIPELINE_AEC)
        => (aec_filter' = ZeroTaps /\ far_end_buffer' = ZeroTaps) ]_vars

\* C11: while the AEC workload stays active the adaptive filter is not reset
\* between frames: the coefficient array always holds what the last
\* echo-canceller frame left in it (so no telemetry report and no
\* SetWorkload, one naming the active AEC kind included, changes it), and
\* every frame starts from the coefficients the previous frame ended with.
C11_FilterPersistsAcrossFrames ==
  /\ aec_filter = h_frame.filt_out
  /\ h_frame.filt_in = h_frame.filt_prev

\* Two echo-canceller frames have run, the second one from the non-zero
\* coefficients of the first; a SetWorkload that reset the iteration count
\* arrived between the two increments, and a report has been taken.
C11_Witness ==
  /\ current_workload = WORKLOAD_AUDIO_PIPELINE_AEC
  /\ h_frame.filt_prev # ZeroTaps
  /\ h_frame.filt_in # ZeroTaps
  /\ h_frame.filt_out # h_frame.filt_in
  /\ wl_pc = "check"
  /\ work_iterations = ToBytes(1, 4)
  /\ st_pc = "sleep"
  /\ rep_left = 0

\* C12: the accumulators are reset to zero exactly on a workload-kind
\* transition: a SetWorkload that changes the active kind zeroes both, a
\* SetWorkload that names the already-active kind leaves both unchanged,
\* and an accumulator that holds work becomes zero in no other step.
C12_ResetExactlyOnKindTransition ==
  [][ /\ (FlprReceives /\ HeadType(to_flpr) = IPC_MSG_SET_WORKLOAD
            /\ HeadWorkload(to_flpr) # current_workload)
           => (total_work_cycles' = Zero8 /\ work_iterations' = Zero4)
      /\ (FlprReceives /\ HeadType(to_flpr) = IPC_MSG_SET_WORKLOAD
            /\ HeadWorkload(to_flpr) = current_workload)
           => UNCHANGED << total_work_cycles, work_iterations >>
      /\ ((total_work_cycles # Zero8 /\ total_work_cycles' = Zero8)
            \/ (work_iterations # Zero4 /\ work_iterations' = Zero4))
           => (FlprReceives /\ HeadType(to_flpr) = IPC_MSG_SET_WORKLOAD
                /\ HeadWorkload(to_flpr) # current_workload) ]_vars

\* C13: while the active workload is Idle no step of the workload task
\* changes an accumulator, whatever the interleaving with the receive
\* callback: the accumulators change only when an envelope is received.
C13_IdleChangesNoAccumulator ==
  [][ (current_workload = WORKLOAD_IDLE /\ ~FlprReceives)
        => UNCHANGED << total_work_cycles, work_iterations >> ]_vars

\* C17: the mips value of every Stats envelope the telemetry task sends is
\* floor(floor(cycle_delta * 10 / 15) / 1 000 000) of the cycle_delta it
\* computed, in exact arithmetic (80-bit images here).
C17_MipsIsExactQuotient ==
  [][ (st_pc = "l1228" /\ st_pc' = "sleep" /\ to_arm' # to_arm)
        => to_arm'[Len(to_arm')].origin.mips \o ZeroBytes(6)
             = DivB(DivB(MulB(cycle_delta \o ZeroBytes(2), 10), 15), 1000000) ]_vars

\* C18: for every mips value computed from a cycle delta, cpu_pct is
\* min(100, floor(mips * 100 / 128)) in exact arithmetic (48-bit images
\* here); so it is 100 whenever mips exceeds 1280.
C18_CpuPctIsCappedQuotient ==
  (u_pc = "done" /\ u_in.op = "stats")
    => LET exact == DivB(MulB(u_out.mips \o ZeroBytes(2), 100), RISCV_FREQ_MHZ)
       IN u_out.cpu_pct \o ZeroBytes(2)
            = IF GreaterThan(exact, 100) THEN ToBytes(100, 6) ELSE exact

\* C14: the VAD decision depends on the frame energy and the zero-crossing
\* count only: voice is declared exactly when energy > 1000 and the count
\* lies strictly between 10 and 80, and the plain and the AEC pipeline
\* decide alike.
C14_VadDecision ==
  (u_pc = "done" /\ u_in.op = "vad")
    => /\ u_out.plain <=> (u_in.frame_energy \in 1001 .. 2147483647
                            /\ u_in.zero_crossings \in 11 .. 79)
       /\ u_out.aec <=> u_out.plain

\* Energy 1200 with 20 zero crossings has been decided, and it is voice.
C14_Witness ==
  /\ u_pc = "done"
  /\ u_in.op = "vad"
  /\ u_in.frame_energy = 1200
  /\ u_in.zero_crossings = 20
  /\ u_out.plain
  /\ u_out.aec

\* C15: the last invocation of the workload task attempted exactly one
\* AudioData send if it was a frame of the plain or the AEC pipeline whose
\* VAD decision was voice, and none otherwise (a frame without voice, or
\* another workload).
C15_AudioSentIffVoice ==
  h_frame.sends = IF h_frame.audio /\ h_frame.voice THEN 1 ELSE 0

\* A pipeline frame with voice has sent its one envelope and the reporting
\* core has counted it.
C15_Witness ==
  /\ h_frame.audio
  /\ h_frame.voice
  /\ h_frame.sends = 1
  /\ audio_frames_received = ToBytes(1, 4)
  /\ audio_voice_detected = ToBytes(1, 4)

C19_GainInRange ==
  (u_pc = "done" /\ u_in.op = "agc" /\ u_in.rms > 0)
    => /\ u_out.plain \in 64 .. 512
       /\ u_out.aec \in 64 .. 512
       /\ u_out.necklace \in 64 .. 512

\* rms = 1: the quotient 256000 does not fit an int16_t, the converted
\* value is negative, and the gain is the lower limit.
C19_Witness ==
  /\ u_pc = "done"
  /\ u_in.op = "agc"
  /\ u_in.rms = 1
  /\ u_out.plain = 64
  /\ u_out.aec = 64
  /\ u_out.necklace = 64

\* C20: a one-byte selector write that finds the channel not ready sleeps at
\* most 20 times and then returns; an envelope enters the queue to the
\* compute core only in a step in which the handler starts or ends its
\* wait, only while the channel is ready, one at a time, and it is the
\* SetWorkload envelope with the written byte; a handler that ends its wait
\* with the channel not ready sends nothing.
C20_BoundedWaitThenOneSend ==
  /\ [][ /\ wr_i' \in 0 .. 20
         /\ Len(to_flpr') > Len(to_flpr)
              => /\ ipc_ready
                 /\ to_flpr' = Append(to_flpr, to_flpr'[Len(to_flpr')])
                 /\ to_flpr'[Len(to_flpr')].buf[1] = IPC_MSG_SET_WORKLOAD
                 /\ Len(to_flpr'[Len(to_flpr')].buf) = SizeOf(IpcMessageArm)
                 /\ \/ wr_pc = "wait" /\ wr_pc' = "idle"
                          /\ to_flpr'[Len(to_flpr')].buf[2] = wr_workload
                    \/ wr_pc = "idle" /\ wr_pc' = "idle" /\ wr_left' = wr_left - 1
         /\ (wr_pc = "wait" /\ wr_pc' = "idle" /\ ipc_ready /\ SendOk(to_flpr))
              => Len(to_flpr') = Len(to_flpr) + 1
         /\ (wr_pc = "wait" /\ wr_pc' = "idle" /\ ~ipc_ready)
              => (wr_i = 20 /\ UNCHANGED to_flpr) ]_vars
  /\ ((wr_pc = "wait") ~> (wr_pc = "idle"))

\* The handler has slept 20 times and the channel is still not ready.
C20_Witness ==
  /\ wr_pc = "wait"
  /\ wr_i = 20
  /\ ~ipc_ready
  /\ to_flpr = <<>>

\* C21: a failed Stats send is not retried.  Every report makes exactly one
\* send attempt, whatever the active workload; the snapshot is taken before
\* the send and no other step changes it, so the next report's deltas start
\* from it whether or not the envelope was accepted; an accepted Stats
\* envelope carries the deltas of the report that sent it, and only the send
\* step of a report puts a Stats envelope into the queue.
C21_FailedSendNotRetried ==
  /\ [](/\ h_sends <= 1
        /\ st_pc # "sleep" => h_sends = 0
        /\ (st_pc = "sleep" /\ rep_left < MaxReports) => h_sends = 1)
  /\ [][ /\ (st_pc = "l1228" /\ st_pc' # st_pc) => st_pc' = "sleep"
         /\ prev_cycles' # prev_cycles
              => (st_pc = "l1221" /\ st_pc' = "l1222" /\ prev_cycles' = total_work_cycles)
         /\ prev_iterations' # prev_iterations
              => (st_pc = "l1222" /\ st_pc' = "l1228"
                  /\ prev_iterations' = work_iterations)
         /\ (st_pc = "sleep" /\ st_pc' = "l1219")
              => cycle_delta' = SubB(total_work_cycles, prev_cycles)
         /\ (Len(to_arm') > Len(to_arm)
              /\ to_arm'[Len(to_arm')].buf[1] = IPC_MSG_STATS)
              => /\ st_pc = "l1228"
                 /\ h_sends' = 1
                 /\ to_arm' = Append(to_arm, to_arm'[Len(to_arm')])
                 /\ SubSeq(to_arm'[Len(to_arm')].buf, 5, 12) = cycle_delta
                 /\ SubSeq(to_arm'[Len(to_arm')].buf, 13, 16) = iter_delta ]_vars

\* The first report (no work yet) is still in the queue; the second report,
\* of 128 cycles, found the queue full, its envelope was dropped and the
\* task sleeps again with its snapshot advanced.
C21_Witness ==
  /\ st_pc = "sleep"
  /\ h_sends = 1
  /\ rep_left = 0
  /\ cycle_delta = ToBytes(128, 8)
  /\ prev_cycles = ToBytes(128, 8)
  /\ Len(to_arm) = 1
  /\ to_arm[1].buf[1] = IPC_MSG_STATS
  /\ SubSeq(to_arm[1].buf, 5, 12) = Zero8
  /\ h_stats_origin = <<>>

\* C22: the adaptive filter state (coefficients and reference history)
\* changes only in a step in which the workload task runs an echo-canceller
\* frame: no step of the telemetry task, of the receive callback or of
\* another workload changes it.
C22_FilterStateOwnedByAecFrame ==
  [][ (aec_filter' # aec_filter \/ far_end_buffer' # far_end_buffer)
        => (wl_pc = "exec" /\ wl_pc' = "addc_ld"
            /\ current_workload = WORKLOAD_AUDIO_PIPELINE_AEC) ]_vars

\* An echo-canceller frame has adapted the filter; then a SetWorkload made
\* MatrixMult active, MatrixMult ran and a report was taken, and the filter
\* state is what the frame left.
C22_Witness ==
  /\ current_workload = WORKLOAD_MATRIX_MULT
  /\ ~h_frame.audio
  /\ h_frame.filt_out # ZeroTaps
  /\ aec_filter = h_frame.filt_out
  /\ far_end_buffer # ZeroTaps
  /\ wl_pc = "check"
  /\ work_iterations = ToBytes(1, 4)
  /\ inv_left = 0
  /\ rep_left = 0

\* C23: once a SetWorkload for a non-Idle kind k has been received and no
\* further SetWorkload can arrive, the workload task (scheduled fairly, and
\* allowed one more invocation) eventually invokes the handler of k; every
\* invocation dispatches on the workload active at the call, so all
\* invocations since the last SetWorkload ran the handler of the active
\* kind.
C23_DispatchFollowsSetWorkload ==
  /\ \A k \in {WORKLOAD_MATRIX_MULT, WORKLOAD_AUDIO_PIPELINE_AEC} :
       (/\ current_workload = k
        /\ flpr_log # <<>>
        /\ to_flpr = <<>>
        /\ wr_pc = "idle"
        /\ wr_left = 0
        /\ inv_left >= 1)
         ~> (h_est # <<>> /\ h_frame.handler = k)
  /\ [](h_est # <<>> => h_frame.handler = current_workload)
  /\ [][ (wl_pc = "exec" /\ wl_pc' = "addc_ld")
           => h_frame'.handler = current_workload ]_vars

\* MatrixMult was invoked, a SetWorkload for the AEC kind arrived while the
\* task was adding that invocation's cycles, and the next invocation ran
\* the AEC handler.
C23_Witness ==
  /\ current_workload = WORKLOAD_AUDIO_PIPELINE_AEC
  /\ h_frame.handler = WORKLOAD_AUDIO_PIPELINE_AEC
  /\ h_frame.filt_out # ZeroTaps
  /\ work_iterations = ToBytes(2, 4)
  /\ Len(h_est) = 1
  /\ inv_left = 0
  /\ wr_left = 0
  /\ to_flpr = <<>>

\* C24: every call of the dispatch function returns after a bounded number of
\* steps, for each of the 14 kinds and for any other workload byte: each loop
\* of the kernel it runs ends, and the loop bodies are executed at most
\* 3 * FRAME_SIZE * AEC_FILTER_TAPS times in all; Idle and a byte that is no
\* kind run no kernel.
C24_DispatchReturns ==
  (u_pc = "done" /\ u_in.op = "dispatch")
    => /\ u_out.steps >= 0
       /\ u_out.steps <= 3 * FRAME_SIZE * AEC_FILTER_TAPS
       /\ u_out.kernel <=> u_in.workload \in 1 .. 13
       /\ u_in.workload = 2 => u_out.steps = 32 + 31 + 496
       /\ u_in.workload = 5 => u_out.steps = 104 + 559 + 52 + 100

C24_Witness ==
  /\ u_pc = "done"
  /\ u_in.op = "dispatch"
  /\ u_in.workload = WORKLOAD_AUDIO_PIPELINE_AEC
  /\ u_out.steps > FRAME_SIZE * FRAME_SIZE

\* C29: double-talk is declared if and only if the near-end frame energy and
\* the far-end energy are both above 500; when it is declared each final
\* output sample is the processed sample, and otherwise it is the error
\* signal's sample, halved (towards zero) when its magnitude is below 50.
C29_DoubleTalkAndFinalOutput ==
  (u_pc = "done" /\ u_in.op = "dtalk")
    => /\ u_out.double_talk <=> (u_in.near_end_energy > 500 /\ u_in.far_end_energy > 500)
       /\ \A i \in Samples :
            u_out.final_output[i] =
              IF u_out.double_talk
                THEN u_in.processed_output[i]
                ELSE IF -50 < u_in.error_signal[i] /\ u_in.error_signal[i] < 50
                       THEN IF u_in.error_signal[i] >= 0
                              THEN u_in.error_signal[i] \div 2
                              ELSE -((-u_in.error_signal[i]) \div 2)
                       ELSE u_in.error_signal[i]

C29_Witness ==
  /\ u_pc = "done"
  /\ u_in.op = "dtalk"
  /\ u_in.near_end_energy = 500
  /\ u_in.far_end_energy = 501
  /\ ~ u_out.double_talk
  /\ u_in.error_signal[15] = -49
  /\ u_out.final_output[15] = -24
  /\ u_out.final_output[14] = -50

\* C30: in an AEC frame for which double-talk is detected the adaptation is
\* frozen: aec_filter at the end of the frame equals aec_filter at its start.
C30_DoubleTalkFreezesFilter ==
  [][ (wl_pc = "exec" /\ wl_pc' = "addc_ld" /\ h_frame'.handler = WORKLOAD_AUDIO_PIPELINE_AEC
         /\ h_frame'.double_talk)
        => aec_filter' = aec_filter ]_vars

\* C26: in every envelope either core builds and sends (Stats, SetWorkload,
\* AudioData of the plain and of the AEC pipeline) the two reserved bytes are
\* zero, and so is every payload word the sender does not set: all five of
\* SetWorkload and data[4] of the plain pipeline's AudioData.
C26_ReservedAndUnsetAreZero ==
  /\ (u_pc = "done" /\ u_in.op = "stats")
       => /\ Len(u_out.msg) = 24
          /\ u_out.msg[1] = IPC_MSG_STATS
          /\ u_out.msg[3] = 0 /\ u_out.msg[4] = 0
  /\ (u_pc = "done" /\ u_in.op = "select")
       => /\ Len(u_out.msg) = 24
          /\ u_out.msg[1] = IPC_MSG_SET_WORKLOAD
          /\ u_out.msg[2] = u_in.workload
          /\ \A i \in 3 .. 24 : u_out.msg[i] = 0
  /\ (u_pc \in {"sent", "done"} /\ u_in.op = "audio")
       => /\ Len(u_out.plain) = 24 /\ Len(u_out.aec) = 24
          /\ u_out.plain[1] = IPC_MSG_AUDIO_DATA /\ u_out.aec[1] = IPC_MSG_AUDIO_DATA
          /\ u_out.plain[3] = 0 /\ u_out.plain[4] = 0
          /\ u_out.aec[3] = 0 /\ u_out.aec[4] = 0
          /\ \A i \in 21 .. 24 : u_out.plain[i] = 0

C26_Witness ==
  /\ u_pc = "done"
  /\ u_in.op = "select"
  /\ u_in.workload = 200
  /\ u_out.msg = <<IPC_MSG_SET_WORKLOAD, 200>> \o [i \in 1 .. 22 |-> 0]

\* C25: for the sent and received byte counts of every report, the radio CPU
\* estimate is min(100, 10 + floor(floor((sent + received) / 1000) * 5 / 10))
\* in exact arithmetic (48-bit images here), and lies in 10 .. 100.
C25_RadioCpuEstimate ==
  radio.reports > 0
    => LET total == AddB(radio.sent_delta \o ZeroBytes(2), radio.recv_delta \o ZeroBytes(2))
           exact == AddB(ToBytes(10, 6), DivB(MulB(DivB(total, 1000), 5), 10))
       IN /\ radio.arm_cpu_pct \o ZeroBytes(2)
               = IF GreaterThan(exact, 100) THEN ToBytes(100, 6) ELSE exact
          /\ ~GreaterThan(radio.arm_cpu_pct, 100)
          /\ GreaterThan(radio.arm_cpu_pct, 9)

\* C27: the streaming loop never divides by zero, whatever rate was written;
\* the delay it computes is 10 ms for rate 0 and otherwise
\* max(5, floor(495000 / floor((rate * 1000 mod 2^32) / 8))) ms; and the
\* target rate changes only to the value of a 4-byte write (or to 0 at a
\* disconnect).
C27_DelayWithoutDivisionByZero ==
  [][ /\ ~radio'.div0
      /\ ~radio'.fault
      /\ (radio'.delay_ms # radio.delay_ms \/ radio'.h_sent > radio.h_sent)
           => IF radio.target_tx_kbps = Zero4
                THEN radio'.delay_ms = ToBytes(10, 4)
                ELSE LET product == SubSeq(MulB(radio.target_tx_kbps \o ZeroBytes(2), 1000), 1, 4)
                         bytes_per_sec == DivB(product, 8)
                     IN bytes_per_sec # Zero4
                          => radio'.delay_ms =
                               IF GreaterThan(bytes_per_sec, 99000)
                                 THEN ToBytes(5, 4)
                                 ELSE ToBytes(495000 \div FromBytes(bytes_per_sec), 4)
      /\ radio'.target_tx_kbps # radio.target_tx_kbps
           => \/ Len(radio'.target_tx_kbps) = 4 /\ radio.conn /\ radio'.conn
                   /\ radio'.target_tx_kbps # Zero4
              \/ radio'.target_tx_kbps = Zero4 /\ radio.conn /\ ~radio'.conn ]_vars

\* C28: in every report computed while a connection exists, the sent and the
\* received delta are the bytes sent and received since the previous
\* snapshot (since the disconnect, when one came after it).
C28_DeltasAreBytesSinceSnapshot ==
  [][ radio'.reports = radio.reports + 1
        => /\ radio'.sent_delta = ToBytes(radio.h_sent, 4)
           /\ radio'.recv_delta = ToBytes(radio.h_recv, 4) ]_vars

\* C31: for every rms > 0 the AGC gain of the plain, the AEC and the necklace
\* pipeline is floor(512000 / (rms + 1)) limited to 64 .. 512, in exact
\* arithmetic; so it is 512 for every rms in 1 .. 999.
C31_GainIsExactClampedQuotient ==
  (u_pc = "done" /\ u_in.op = "agc" /\ u_in.rms > 0)
    => LET exact == 512000 \div (u_in.rms + 1)
           gain == IF exact > 512 THEN 512 ELSE IF exact < 64 THEN 64 ELSE exact
       IN /\ u_out.plain = gain
          /\ u_out.aec = gain
          /\ u_out.necklace = gain
          /\ u_in.rms \in 1 .. 999 => u_out.plain = 512 /\ u_out.necklace = 512

\* C32: in the fast GATT peripheral the notifications handed to the radio
\* stack and not yet confirmed by the sent callback never number more than
\* TX_BUF_COUNT.
C32_UnackedWithinTxBufCount == gatt.unacked <= TX_BUF_COUNT

\* C33: delta snapshotting loses no accumulated work.  While no SetWorkload
\* arrives after the one that started the work, every snapshot of the
\* telemetry task equals the previous snapshot plus the delta just reported,
\* so the deltas reported so far add up to the accumulator as of the latest
\* snapshot, for the cycles and for the iterations, however the workload
\* task interleaves.
C33_DeltasAddUpToSnapshot ==
  [][ (h_scn = "mm" /\ h_scn' = "mm")
        => /\ (st_pc = "l1221" /\ st_pc' = "l1222")
                => prev_cycles' = AddB(prev_cycles, cycle_delta)
           /\ (st_pc = "l1222" /\ st_pc' = "l1228")
                => prev_iterations' = AddB(prev_iterations, iter_delta) ]_vars

\* C34: a reset by the receive callback is neither lost nor polluted.  Once
\* a SetWorkload has been handled and no invocation dispatched after it has
\* returned, the accumulators hold no work whenever the workload task is
\* between two invocations, wherever the callback preempted the task.
C34_ResetNeitherLostNorPolluted ==
  (h_scn # "init" /\ h_est = <<>> /\ wl_pc \in {"check", "exec"})
    => (total_work_cycles = Zero8 /\ work_iterations = Zero4)

\* C35: the beamforming stage reads only what the pre-processing stage of the
\* same invocation wrote, so two echo-canceller frames started with the same
\* previous-frame result, coefficients and reference history reach the same
\* VAD decision and the same fields of the AudioData message (samples 0 to 3,
\* frame energy, zero crossings, double-talk flag).
C35_SameStartSameFrame ==
  \A e, f \in u_frames :
     (e[1] = f[1] /\ e[2] = f[2] /\ e[3] = f[3])
       => /\ e[5].voice_detected = f[5].voice_detected
          /\ e[5].frame_energy = f[5].frame_energy
          /\ e[5].zero_crossings = f[5].zero_crossings
          /\ e[5].double_talk = f[5].double_talk
          /\ \A i \in 0 .. 3 : e[5].final_output[i] = f[5].final_output[i]

\* C36: the coefficient clamp saturates in the direction of the update: in
\* every coefficient pass of an echo-canceller frame, a coefficient whose
\* exact sum coefficient + update is greater than 8192 is stored as 8192 and
\* one whose exact sum is less than -8192 is stored as -8192.
C36_ClampSaturatesInDirection == \A e \in u_frames : e[5].coef_sat

\* C37: in every echo-canceller frame in which VAD fires double-talk is
\* declared too, and the AudioData envelope the frame sends carries the
\* double-talk flag 1 and, as samples 0 to 3, the processed samples of
\* stage 4, not the error signal.
C37_VoiceImpliesDoubleTalk ==
  [][ (wl_pc = "exec" /\ wl_pc' = "addc_ld"
         /\ h_frame'.handler = WORKLOAD_AUDIO_PIPELINE_AEC /\ h_frame'.voice)
        => /\ h_frame'.double_talk
           /\ SendOk(to_arm)
                => LET buf == to_arm'[Len(to_arm')].buf
                       base == OffsetOf(IpcMessageFlpr, "data")
                   IN /\ SubSeq(buf, base + 17, base + 20) = ToBytes(1, 4)
                      /\ \E stale \in StaleStacks :
                           \E po \in {AecFrontEnd(work_result, stale).processed_output} :
                              SubSeq(buf, base + 1, base + 8)
                                = PackSamples(po[0], po[1]) \o PackSamples(po[2], po[3])
    ]_vars

C37_Witness ==
  /\ wl_pc = "addc_ld"
  /\ h_frame.handler = WORKLOAD_AUDIO_PIPELINE_AEC
  /\ h_frame.voice
  /\ h_frame.double_talk
  /\ h_frame.sends = 1
  /\ to_arm # <<>>
  /\ to_arm[Len(to_arm)].buf[OffsetOf(IpcMessageFlpr, "workload") + 1]
       = WORKLOAD_AUDIO_PIPELINE_AEC
  /\ to_arm[Len(to_arm)].buf[OffsetOf(IpcMessageFlpr, "data") + 17] = 1

C39_VoiceCountEqualsFrameCount ==
  /\ FromBytes(audio_voice_detected) <= FromBytes(audio_frames_received)
  /\ audio_voice_detected = audio_frames_received

C39_Witness ==
  /\ arm_log # <<>>
  /\ arm_log[1] = IPC_MSG_AUDIO_DATA
  /\ to_arm = <<>>
  /\ h_frame.handler = WORKLOAD_AUDIO_PIPELINE
  /\ audio_frames_received = ToBytes(1, 4)
  /\ audio_voice_detected = ToBytes(1, 4)

=============================================================================
